---------------------------- MODULE Spec2Model ----------------------------
(***************************************************************************)
(* PREM-on-FHIR: the QuestionnaireResponse synthesis pipeline.             *)
(*                                                                         *)
(*   qr_bundle_maker.py   header CSV -> generated answers -> QR resources  *)
(*                        -> write_bundles (chunked batch bundles)         *)
(*   make_qr_bundles.py   CSV rows -> QR entries, flushed chunk by chunk   *)
(*   questionnaire_bundle_maker.py   definitions -> one transaction bundle *)
(*                                                                         *)
(* The module holds one state machine per part of the pipeline:            *)
(*   SpecBatch     the two batch writers (write_bundles, main's flush loop)*)
(*   SpecValidate  _validate_ppnq_answers on a service response            *)
(*   SpecLlm       gen_ppnq_answers_llm and its retry loop in main         *)
(*   SpecGen       the offline strategies (gen_nreq_answers,               *)
(*                 gen_ppnq_answers_dry) in two runs side by side          *)
(*   SpecNormalize to_fhir_datetime of both scripts                        *)
(*   SpecResolve   the field resolvers pick_ci and get_first_present       *)
(*   SpecAssemble  build_qr of both scripts and make_entry                 *)
(*   SpecTx        questionnaire_bundle_maker.main                         *)
(***************************************************************************)
EXTENDS Integers, Sequences, FiniteSets, TLC

VARIABLES
    \* ---- batch writers ----
    prog,        \* which script runs: "qr_bundle_maker" | "make_qr_bundles" | "none"
    resources,   \* the record stream, in row order (records are numbered by row)
    chunk_size,  \* args.chunk_size (argparse type=int: any integer)
    bpc,         \* position of the writer: "start" | "write" | "read" | "done" | "exit2" | "idle"
    wi,          \* write_bundles: loop variable i; main (make_qr_bundles): rows consumed
    current,     \* make_qr_bundles.main: the in-memory buffer `current`
    chunk_idx,   \* make_qr_bundles.main: the 1-based chunk counter
    written,     \* the files written so far, in order:
                 \* [idx |-> file index, path |-> file name, entry |-> records]
    prefix,      \* qr_bundle_maker.main: prefix = args.mode
    exit_code,   \* the status the process ended with (Running: it has not ended)
    \* ---- _validate_ppnq_answers on a service response ----
    obj,         \* the parsed service response: [shape, answers]
    vnext,       \* the service has dealt with the first vnext-1 required linkIds
    faults,      \* deviations from the requested shape the service made so far
    vpc,         \* "build" | "validated" | "idle"
    vres,        \* what _validate_ppnq_answers did: [kind, err, out]
    \* ---- gen_ppnq_answers_llm in main's row loop ----
    lentry,      \* "main": the script runs; "call": an importer calls gen_ppnq_answers_llm
    gargs,       \* the module global `args` the function reads: [bound, has, max_retries]
    llm,         \* args.llm
    dry_run,     \* args.dry_run
    sdkInstalled,\* `from openai import OpenAI` works
    apiKey,      \* cfg.api_key or OPENAI_API_KEY is set
    cfgRetries,  \* cfg.max_retries
    lrows,       \* number of header rows
    lrow,        \* the row main is at (1-based)
    lpc,         \* "row" | "loop" | "sdk" | "rest" | "validate" | "failed" | "done" | "idle"
    attempt,     \* iterations of the retry loop started for this row
    restAttempt, \* _call_openai_json: the loop variable `attempt` of the REST fallback
    last_err,    \* gen_ppnq_answers_llm: last_err
    lerr,        \* the exception that left main ("none": none)
    lobj,        \* the object _call_openai_json returned
    lanswers,    \* per finished row: which generator gave its answers, and the answers
    sdkReqs,     \* requests sent through the preferred client for this row
    restReqs,    \* requests sent through the REST fallback for this row
    lchunk,      \* args.chunk_size
    lfiles,      \* the batch files main has written, by name
    \* ---- main's row loop with an offline strategy, two runs side by side ----
    gmode,       \* args.mode
    gseed,       \* args.seed: [given, value]
    glikert,     \* likert_probs, as weights
    gquest,      \* questionnaire["item"]
    grows,       \* number of header rows
    grng,        \* per run: the state of rng
    grow,        \* per run: the row main is at (1-based)
    ganswers,    \* per run: the AnswerSets generated so far, row by row
    grow_ci,     \* per run: row_ci of the iteration, as read from that run's table
    \* ---- to_fhir_datetime called on a text ----
    nclock,      \* the current instant (seconds)
    ncall,       \* the last call: [prog, arg, at, out]
    \* ---- a field resolver called on a row ----
    rrow,        \* the row: [raw, ci], sequences of <<header, cell>> as read and normalized
    rcall,       \* the last call: [prog, field, out]
    \* ---- build_qr called for a row, twice ----
    aprog,       \* which script: "qr_bundle_maker" | "make_qr_bundles" | "none"
    arow,        \* the header row: [raw, ci]
    ain,         \* qr_bundle_maker: [mode, quest, answers] handed to build_qr
    adefurl,     \* questionnaire.get("url")
    aurlopt,     \* args.questionnaire_url
    an_items,    \* make_qr_bundles: args.n_items
    aclock,      \* the current instant (seconds)
    auuid,       \* identifiers uuid4 has minted
    arecs,       \* the entries assembled so far: [fullUrl, resource]
    \* ---- questionnaire_bundle_maker.main ----
    tfiles,      \* the *.json files of the input folder, in name order, as parsed
    tmethod,     \* args.method
    tpc,         \* "start" | "loaded" | "sorted" | "done" | "exit2" | "idle"
    tresources,  \* main: resources
    tentries,    \* build_bundle: the entries made so far
    tuuid        \* identifiers uuid4 has minted

batchVars == <<prog, resources, chunk_size, bpc, wi, current, chunk_idx, written, prefix, exit_code>>
validateVars == <<obj, vnext, faults, vpc, vres>>
llmVars == <<lentry, gargs, llm, dry_run, sdkInstalled, apiKey, cfgRetries, lrows, lrow, lpc,
             attempt, restAttempt, last_err, lerr, lobj, lanswers, sdkReqs, restReqs,
             lchunk, lfiles>>

genVars == <<gmode, gseed, glikert, gquest, grows, grng, grow, ganswers, grow_ci>>

normalizeVars == <<nclock, ncall>>

resolveVars == <<rrow, rcall>>

assembleVars == <<aprog, arow, ain, adefurl, aurlopt, an_items, aclock, auuid, arecs>>

txVars == <<tfiles, tmethod, tpc, tresources, tentries, tuuid>>

vars == <<batchVars, validateVars, llmVars, genVars,
          normalizeVars, resolveVars, assembleVars, txVars>>

\* what the steps of one part leave alone
notBatch == <<validateVars, llmVars, genVars, normalizeVars, resolveVars, assembleVars, txVars>>
notValidate == <<batchVars, llmVars, genVars, normalizeVars, resolveVars, assembleVars, txVars>>
notLlm == <<batchVars, validateVars, genVars, normalizeVars, resolveVars, assembleVars, txVars>>
notGen == <<batchVars, validateVars, llmVars, normalizeVars, resolveVars, assembleVars, txVars>>
notNormalize == <<batchVars, validateVars, llmVars, genVars, resolveVars, assembleVars, txVars>>
notResolve == <<batchVars, validateVars, llmVars, genVars, normalizeVars, assembleVars, txVars>>
notAssemble == <<batchVars, validateVars, llmVars, genVars, normalizeVars, resolveVars, txVars>>
notTx == <<batchVars, validateVars, llmVars, genVars, normalizeVars, resolveVars, assembleVars>>

-----------------------------------------------------------------------------
(* Bounds of the model *)

MaxRows == 5
MaxChunk == 3
MaxNegChunk == 2
ExampleTotal == 600
LongRunTotal == 1000
MaxFaults == 1
MaxAnswers == 12
MaxCodeMag == 4
MaxRetries == 3
MaxCfgRetries == 2
MaxLlmRows == 2
MaxSeed == 3
MaxGenRows == 4
MaxClock == 2
MaxColumns == 2
MaxNItems == 4
MaxAssemblies == 2
MaxFiles == 3

(* Program constants *)

DefaultChunkSize == 250
DefaultMaxRetries == 3

-----------------------------------------------------------------------------
(* Helpers *)

Max(a, b) == IF a >= b THEN a ELSE b
Min(a, b) == IF a <= b THEN a ELSE b

\* range(1, n+1) as a list
Range1(n) == [k \in 1..n |-> k]

\* math.ceil(a / b) for a >= 0, b >= 1
CeilDiv(a, b) == (a + b - 1) \div b

\* Python's s[lo:hi]: a negative index counts from the end, and both ends are
\* clamped into 0..len(s); an empty range gives the empty list.
PySliceIndex(x, n) == IF x < 0 THEN Max(x + n, 0) ELSE Min(x, n)
PySlice(s, lo, hi) == SubSeq(s, PySliceIndex(lo, Len(s)) + 1, PySliceIndex(hi, Len(s)))

\* the lists of ss joined in order (halving, so that long runs stay shallow)
RECURSIVE Concat(_)
Concat(ss) ==
    IF ss = <<>> THEN <<>>
    ELSE IF Len(ss) = 1 THEN ss[1]
    ELSE LET h == Len(ss) \div 2 IN
         Concat(SubSeq(ss, 1, h)) \o Concat(SubSeq(ss, h + 1, Len(ss)))

-----------------------------------------------------------------------------
(* Batch writers *)

\* exit_code while the process runs
Running == 0 - 1

\* format(i, "03d"), for i >= 0
Pad3(i) == IF i < 10 THEN "00" \o ToString(i) ELSE IF i < 100 THEN "0" \o ToString(i) ELSE ToString(i)

\* write_bundles: f"{prefix}_batch_bundle_{i+1:03d}.json", for the loop variable i
BundlePath(pfx, i) == pfx \o "_batch_bundle_" \o Pad3(i + 1) \o ".json"

\* write_chunk: f"nreq_batch_bundle_{idx:03d}.json"
WriteChunkPath(idx) == "nreq_batch_bundle_" \o Pad3(idx) \o ".json"

ChunkSizes == (0 - MaxNegChunk)..MaxChunk

BatchConfigs ==
    {<<n, c>> : n \in 0..MaxRows, c \in ChunkSizes}
        \cup {<<ExampleTotal, DefaultChunkSize>>, <<LongRunTotal, 1>>}

BatchInit ==
    /\ prog \in {"qr_bundle_maker", "make_qr_bundles"}
    /\ \E cfg \in BatchConfigs :
          /\ resources = Range1(cfg[1])
          /\ chunk_size = cfg[2]
    /\ bpc = "start"
    /\ wi = 0
    /\ current = <<>>
    /\ chunk_idx = 0
    /\ written = <<>>
    /\ prefix \in (IF prog = "qr_bundle_maker" THEN {"nreq", "ppnq"} ELSE {"nreq"})
    /\ exit_code = Running

BatchIdle ==
    /\ prog = "none"
    /\ resources = <<>>
    /\ chunk_size = DefaultChunkSize
    /\ bpc = "idle"
    /\ wi = 0
    /\ current = <<>>
    /\ chunk_idx = 0
    /\ written = <<>>
    /\ prefix = "nreq"
    /\ exit_code = Running

\* qr_bundle_maker.main: `if not header_rows: ... return 2`
MainNoRows ==
    /\ prog = "qr_bundle_maker" /\ bpc = "start"
    /\ resources = <<>>
    /\ bpc' = "exit2"
    /\ exit_code' = 2
    /\ UNCHANGED <<prog, resources, chunk_size, wi, current, chunk_idx, written, prefix, notBatch>>

\* qr_bundle_maker.main: every row generated and assembled, write_bundles is called
MainCallWriteBundles ==
    /\ prog = "qr_bundle_maker" /\ bpc = "start"
    /\ resources # <<>>
    /\ bpc' = "write"
    /\ UNCHANGED <<prog, resources, chunk_size, wi, current, chunk_idx, written, prefix, exit_code, notBatch>>

\* write_bundles: chunks = math.ceil(len(resources) / max(1, chunk_size))
Chunks == CeilDiv(Len(resources), Max(1, chunk_size))

\* write_bundles: batch = resources[i*chunk_size:(i+1)*chunk_size]
BatchOf(i) == PySlice(resources, i * chunk_size, (i + 1) * chunk_size)

\* write_bundles: one iteration of `for i in range(chunks)`, file index i+1
WriteBundle ==
    /\ prog = "qr_bundle_maker" /\ bpc = "write"
    /\ wi < Chunks
    /\ written' = Append(written, [idx |-> wi + 1, path |-> BundlePath(prefix, wi), entry |-> BatchOf(wi)])
    /\ wi' = wi + 1
    /\ UNCHANGED <<prog, resources, chunk_size, bpc, current, chunk_idx, prefix, exit_code, notBatch>>

\* write_bundles: the loop is over, `return paths`; main prints the summary
\* and ends with `return 0`
WriteBundlesReturn ==
    /\ prog = "qr_bundle_maker" /\ bpc = "write"
    /\ wi >= Chunks
    /\ bpc' = "done"
    /\ exit_code' = 0
    /\ UNCHANGED <<prog, resources, chunk_size, wi, current, chunk_idx, written, prefix, notBatch>>

\* make_qr_bundles.main: the CSV is opened, the row loop starts
StreamOpen ==
    /\ prog = "make_qr_bundles" /\ bpc = "start"
    /\ bpc' = "read"
    /\ UNCHANGED <<prog, resources, chunk_size, wi, current, chunk_idx, written, prefix, exit_code, notBatch>>

\* make_qr_bundles.main: one iteration of `for row in reader`:
\* current.append(entry); flush when len(current) >= args.chunk_size
StreamRow ==
    /\ prog = "make_qr_bundles" /\ bpc = "read"
    /\ wi < Len(resources)
    /\ wi' = wi + 1
    /\ LET buf == Append(current, resources[wi + 1]) IN
         IF Len(buf) >= chunk_size
           THEN /\ chunk_idx' = chunk_idx + 1
                /\ written' = Append(written, [idx |-> chunk_idx + 1, path |-> WriteChunkPath(chunk_idx + 1), entry |-> buf])
                /\ current' = <<>>
           ELSE /\ current' = buf
                /\ UNCHANGED <<chunk_idx, written>>
    /\ UNCHANGED <<prog, resources, chunk_size, bpc, prefix, exit_code, notBatch>>

\* make_qr_bundles.main: after the loop, `if current:` flush the remainder;
\* main prints the summary and returns, so the process ends with status 0
StreamFlushRemainder ==
    /\ prog = "make_qr_bundles" /\ bpc = "read"
    /\ wi >= Len(resources)
    /\ IF current # <<>>
         THEN /\ chunk_idx' = chunk_idx + 1
              /\ written' = Append(written, [idx |-> chunk_idx + 1, path |-> WriteChunkPath(chunk_idx + 1), entry |-> current])
         ELSE UNCHANGED <<chunk_idx, written>>
    /\ bpc' = "done"
    /\ exit_code' = 0
    /\ UNCHANGED <<prog, resources, chunk_size, wi, current, prefix, notBatch>>

BatchNext ==
    \/ MainNoRows
    \/ MainCallWriteBundles
    \/ WriteBundle
    \/ WriteBundlesReturn
    \/ StreamOpen
    \/ StreamRow
    \/ StreamFlushRemainder

\* The batches emitted so far, in emission order
Batches == [k \in 1..Len(written) |-> written[k].entry]

-----------------------------------------------------------------------------
(* C1: when a run has written its batches, every batch holds at most        *)
(* chunk_size records and the batches, concatenated in emission order, are  *)
(* exactly the record stream in row order (nothing lost, duplicated or      *)
(* moved), for write_bundles and for the streaming flush loop alike.        *)
C1_PartitionPreservesStream ==
    bpc = "done" =>
        /\ \A k \in 1..Len(Batches) : Len(Batches[k]) <= chunk_size
        /\ Concat(Batches) = resources

(* C2: the number of batches is ceil(total / capacity): every batch but the *)
(* last holds exactly capacity records, the last holds the remainder, and   *)
(* no batch is empty.                                                       *)
C2_BatchCountAndSizes ==
    bpc = "done" =>
        LET n == Len(Batches)
            total == Len(resources) IN
        /\ n * chunk_size >= total
        /\ (n - 1) * chunk_size < total \/ n = 0
        /\ \A k \in 1..n : Batches[k] # <<>>
        /\ \A k \in 1..(n - 1) : Len(Batches[k]) = chunk_size
        /\ n > 0 => Len(Batches[n]) = total - (n - 1) * chunk_size

\* What does hold: with a chunk size of at least 1 both writers partition the stream
BatchPositiveChunkOk ==
    (bpc = "done" /\ chunk_size >= 1) =>
        /\ \A k \in 1..Len(Batches) : Len(Batches[k]) <= chunk_size
        /\ Concat(Batches) = resources
        /\ Len(Batches) = CeilDiv(Len(resources), chunk_size)
        /\ \A k \in 1..Len(Batches) : Batches[k] # <<>>
        /\ \A k \in 1..(Len(Batches) - 1) : Len(Batches[k]) = chunk_size

\* The spec's example: 600 records, capacity 250 -> batches of 250, 250, 100
BatchExampleOk ==
    (bpc = "done" /\ chunk_size = DefaultChunkSize /\ Len(resources) = 600) =>
        [k \in 1..Len(Batches) |-> Len(Batches[k])] = <<250, 250, 100>>

-----------------------------------------------------------------------------
(* _validate_ppnq_answers                                                   *)
(*                                                                          *)
(* A JSON value is [t, s]: t its type ("absent" for a key that is not there)*)
(* and s its text (a string's characters, a number's numeral).              *)

NPS_SYSTEM == "http://example.org/fhir/CodeSystem/nps-scale"
\* the system the prompt asks the service for (_ppnq_schema_prompt)
PromptSystem == "http://example.org/fhir/CodeSystem/nps-0-10"

\* BUILTIN_PPNQ's items, in order
PpnqLinkIds ==
    << "ppnq-q1", "ppnq-q2", "ppnq-q3a", "ppnq-q3b", "ppnq-q4", "ppnq-q5",
       "ppnq-q6", "ppnq-q7", "ppnq-q8", "ppnq-q9", "ppnq-q9-text" >>

\* _validate_ppnq_answers: req
Req ==
    { "ppnq-q1", "ppnq-q2", "ppnq-q3a", "ppnq-q3b", "ppnq-q4", "ppnq-q5",
      "ppnq-q6", "ppnq-q7", "ppnq-q8", "ppnq-q9", "ppnq-q9-text" }

JAbsent == [t |-> "absent", s |-> ""]
JNull == [t |-> "null", s |-> ""]
JStr(x) == [t |-> "str", s |-> x]
JInt(n) == [t |-> "int", s |-> ToString(n)]
JList == [t |-> "list", s |-> ""]

NoCoding == [t |-> "absent", system |-> JAbsent, code |-> JAbsent, display |-> JAbsent]
NotACoding == [t |-> "other", system |-> JAbsent, code |-> JAbsent, display |-> JAbsent]
Coding(sys, code, disp) == [t |-> "dict", system |-> sys, code |-> code, display |-> disp]

\* one element of obj["answers"]
Entry(linkId, vs, vc) == [t |-> "dict", linkId |-> linkId, valueString |-> vs, valueCoding |-> vc]
NotADict == [t |-> "other", linkId |-> JAbsent, valueString |-> JAbsent, valueCoding |-> NoCoding]

\* an answer of an AnswerSet: kind names the value key it carries
StringAnswer(l, s) ==
    [linkId |-> l, kind |-> "valueString", valueString |-> s,
     valueCoding |-> [system |-> "", code |-> "", display |-> ""]]
CodingAnswer(l, sys, code, disp) ==
    [linkId |-> l, kind |-> "valueCoding", valueString |-> "",
     valueCoding |-> [system |-> sys, code |-> code, display |-> disp]]

\* str(v); dict.get gives None for an absent key
PyStr(v) == IF v.t \in {"absent", "null"} THEN "None" ELSE v.s

\* truth value of v in `v or default`
Truthy(v) ==
    CASE v.t = "str" -> v.s # ""
      [] v.t = "int" -> v.s # "0"
      [] OTHER -> FALSE

\* int(s) for a string s: the decimal numerals, also with a leading zero or
\* surrounding blanks; anything else raises ValueError
IntLiterals == (0 - (MaxCodeMag + 1))..(10 + MaxCodeMag + 1)
OddNumerals == {<<"07", 7>>, <<" 5 ", 5>>}
PyIntOk(s) ==
    \/ \E n \in IntLiterals : ToString(n) = s
    \/ \E p \in OddNumerals : p[1] = s
PyInt(s) ==
    IF \E n \in IntLiterals : ToString(n) = s
      THEN CHOOSE n \in IntLiterals : ToString(n) = s
      ELSE (CHOOSE p \in OddNumerals : p[1] = s)[2]

\* `if linkId in seen: continue`
C4m_NeverSeen(seen, linkId) == FALSE
AlreadySeen(seen, linkId) == linkId \in seen

\* the answer kept for entry a: sys_, code, disp of lines 491-493
KeptCoding(a) ==
    LET vc == a.valueCoding
        sys == IF Truthy(vc.system) THEN vc.system.s ELSE NPS_SYSTEM
        code == PyStr(vc.code)
        disp == IF Truthy(vc.display) THEN PyStr(vc.display) ELSE code
    IN CodingAnswer(a.linkId.s, sys, code, disp)

\* the loop `for a in obj["answers"]`: [err, out]; a linkId that cannot be
\* hashed makes `linkId in seen` raise TypeError
RECURSIVE ValidateLoop(_, _, _)
ValidateLoop(answers, out, seen) ==
    IF answers = <<>> THEN [err |-> "", out |-> out]
    ELSE
      LET a == Head(answers)
          rest == Tail(answers) IN
      IF a.t # "dict" \/ a.linkId.t = "absent" THEN ValidateLoop(rest, out, seen)
      ELSE IF a.linkId.t = "list" THEN [err |-> "TypeError", out |-> out]
      ELSE IF AlreadySeen(seen, a.linkId.s) THEN ValidateLoop(rest, out, seen)
      ELSE IF a.valueString.t = "str"
        THEN ValidateLoop(rest, Append(out, StringAnswer(a.linkId.s, a.valueString.s)),
                          seen \cup {a.linkId.s})
      ELSE IF a.valueCoding.t = "dict"
        THEN ValidateLoop(rest, Append(out, KeptCoding(a)), seen \cup {a.linkId.s})
      ELSE ValidateLoop(rest, out, seen \cup {a.linkId.s})

\* missing = sorted(req - got), as a set
C3m_MissingIgnoresQ5(out) == (Req \ {"ppnq-q5"}) \ {out[k].linkId : k \in DOMAIN out}
Missing(out) == Req \ {out[k].linkId : k \in DOMAIN out}

\* nps = max(0, min(10, nps))
ClampNps(n) == Max(0, Min(10, n))

\* "Coerce NPS to be 0..10 if present": one element of the final loop over out
CoerceNps(a) ==
    IF a.linkId = "ppnq-q9" /\ a.kind = "valueCoding"
      THEN IF PyIntOk(a.valueCoding.code)
             THEN LET nps == ClampNps(PyInt(a.valueCoding.code)) IN
                  CodingAnswer(a.linkId, NPS_SYSTEM, ToString(nps), ToString(nps))
             ELSE CodingAnswer(a.linkId, NPS_SYSTEM, "7", "7")
      ELSE a

\* _validate_ppnq_answers(obj): [kind |-> "returned" | "raised", err, out]
Raised(e) == [kind |-> "raised", err |-> e, out |-> <<>>]
ValidatePpnqAnswers(o) ==
    IF o.shape # "ok" THEN Raised("ValueError: not an object with an answers array")
    ELSE
      LET r == ValidateLoop(o.answers, <<>>, {}) IN
      IF r.err # "" THEN Raised(r.err)
      ELSE IF Missing(r.out) # {} THEN Raised("ValueError: Missing required answers")
      ELSE [kind |-> "returned", err |-> "",
            out |-> [k \in DOMAIN r.out |-> CoerceNps(r.out[k])]]

(* The service's response, built answer by answer: it follows the requested *)
(* order and shape except for at most MaxFaults deviations.                 *)

ObjShapes == {"ok", "notdict", "noanswers", "answersnotlist"}

\* the scores the service gives as asked: "<0-10 string>", display the same,
\* the system the prompt names
AskedScores == {"0", "5", "10"}

\* the entry the prompt asks for, for the k-th required linkId
AskedEntries(k) ==
    IF PpnqLinkIds[k] = "ppnq-q9"
      THEN {Entry(JStr("ppnq-q9"), JAbsent, Coding(JStr(PromptSystem), JStr(c), JStr(c))) :
                c \in AskedScores}
      ELSE {Entry(JStr(PpnqLinkIds[k]), JStr("text"), NoCoding)}

\* codes the service may give for ppnq-q9 against the prompt: out of range on
\* either side, a numeral int() accepts but str() does not give back, no
\* numeral, no code, a number
OddCodes ==
    {JStr(ToString(n)) : n \in {0 - MaxCodeMag, 10 + MaxCodeMag}}
        \cup {JStr("07"), JStr("abc"), JNull, JInt(14)}
\* system and display the service may give with a code
ServiceLabels ==
    { <<JAbsent, JAbsent>>, <<JStr(PromptSystem), JStr("ten")>>, <<JStr("urn:other"), JAbsent>> }

\* a coded ppnq-q9 answer that is not what the prompt asks for
OddScoreEntries ==
    {Entry(JStr("ppnq-q9"), JAbsent, Coding(sd[1], c, sd[2])) :
        sd \in ServiceLabels, c \in OddCodes \cup {JStr("5")}}

\* an entry for linkId l that carries no usable value
ValuelessEntries(l) ==
    { Entry(JStr(l), JAbsent, NoCoding),
      Entry(JStr(l), JInt(3), NotACoding) }

\* an entry of the other value kind than the one asked for
OtherKindEntry(l) ==
    IF l = "ppnq-q9"
      THEN Entry(JStr(l), JStr("9"), Coding(JStr(PromptSystem), JStr("9"), JStr("9")))
      ELSE Entry(JStr(l), JInt(3), Coding(JStr("urn:other"), JStr("x"), JAbsent))

\* a second entry for a linkId, with another value than the first
RepeatEntry(l) ==
    IF l = "ppnq-q9"
      THEN Entry(JStr(l), JAbsent, Coding(JAbsent, JStr("3"), JAbsent))
      ELSE Entry(JStr(l), JStr("other text"), NoCoding)

LinkIdsIn(answers) ==
    {answers[k].linkId.s : k \in {j \in DOMAIN answers : answers[j].linkId.t = "str"}}

JunkEntries ==
    { NotADict,
      Entry(JAbsent, JStr("text"), NoCoding),
      Entry(JList, JStr("text"), NoCoding),
      Entry(JStr("extra-q"), JStr("text"), NoCoding),
      Entry(JStr("extra-q"), JAbsent, NoCoding) }

\* the linkIds the service may answer a second time: the one it answered last
\* and the score
Repeatable(answers) ==
    {l \in LinkIdsIn(answers) :
        \/ l = "ppnq-q9"
        \/ l = answers[Len(answers)].linkId.s}

ValidateInit ==
    /\ obj \in [shape : ObjShapes, answers : {<<>>}]
    /\ vnext = 1
    /\ faults = 0
    /\ vpc = "build"
    /\ vres = [kind |-> "none", err |-> "", out |-> <<>>]

ValidateIdle ==
    /\ obj = [shape |-> "ok", answers |-> <<>>]
    /\ vnext = 1
    /\ faults = 0
    /\ vpc = "idle"
    /\ vres = [kind |-> "none", err |-> "", out |-> <<>>]

Building == vpc = "build" /\ obj.shape = "ok" /\ Len(obj.answers) < MaxAnswers

SvcAdd(e) == obj' = [obj EXCEPT !.answers = Append(@, e)]

\* the service answers the next required linkId as asked
SvcAnswer ==
    /\ Building /\ vnext <= Len(PpnqLinkIds)
    /\ \E e \in AskedEntries(vnext) : SvcAdd(e)
    /\ vnext' = vnext + 1
    /\ UNCHANGED <<faults, vpc, vres, notValidate>>

\* the service leaves the next required linkId out
SvcOmit ==
    /\ Building /\ vnext <= Len(PpnqLinkIds) /\ faults < MaxFaults
    /\ vnext' = vnext + 1
    /\ faults' = faults + 1
    /\ UNCHANGED <<obj, vpc, vres, notValidate>>

\* the service answers the next required linkId without a usable value, or
\* with the other kind of value
SvcBadValue ==
    /\ Building /\ vnext <= Len(PpnqLinkIds) /\ faults < MaxFaults
    /\ \E e \in ValuelessEntries(PpnqLinkIds[vnext]) \cup {OtherKindEntry(PpnqLinkIds[vnext])} :
          SvcAdd(e)
    /\ vnext' = vnext + 1
    /\ faults' = faults + 1
    /\ UNCHANGED <<vpc, vres, notValidate>>

\* the service gives the score with a code, system or display it was not asked for
SvcOddScore ==
    /\ Building /\ vnext <= Len(PpnqLinkIds) /\ faults < MaxFaults
    /\ PpnqLinkIds[vnext] = "ppnq-q9"
    /\ \E e \in OddScoreEntries : SvcAdd(e)
    /\ vnext' = vnext + 1
    /\ faults' = faults + 1
    /\ UNCHANGED <<vpc, vres, notValidate>>

\* the service answers a linkId it has answered before
SvcRepeat ==
    /\ Building /\ faults < MaxFaults
    /\ \E l \in Repeatable(obj.answers) : SvcAdd(RepeatEntry(l))
    /\ faults' = faults + 1
    /\ UNCHANGED <<vnext, vpc, vres, notValidate>>

\* the service answers, out of order, a linkId it left out before
SvcLate ==
    /\ Building
    /\ \E k \in 1..(vnext - 1) :
          /\ PpnqLinkIds[k] \notin LinkIdsIn(obj.answers)
          /\ \E e \in AskedEntries(k) : SvcAdd(e)
    /\ UNCHANGED <<vnext, faults, vpc, vres, notValidate>>

\* the service adds something that was not asked for
SvcJunk ==
    /\ Building /\ faults < MaxFaults
    /\ \E e \in JunkEntries : SvcAdd(e)
    /\ faults' = faults + 1
    /\ UNCHANGED <<vnext, vpc, vres, notValidate>>

\* gen_ppnq_answers_llm: `return _validate_ppnq_answers(obj)` on the response
Validate ==
    /\ vpc = "build"
    /\ vres' = ValidatePpnqAnswers(obj)
    /\ vpc' = "validated"
    /\ UNCHANGED <<obj, vnext, faults, notValidate>>

ValidateNext ==
    \/ SvcAnswer
    \/ SvcOmit
    \/ SvcBadValue
    \/ SvcOddScore
    \/ SvcRepeat
    \/ SvcLate
    \/ SvcJunk
    \/ Validate

-----------------------------------------------------------------------------
(* Claims about _validate_ppnq_answers *)

Validated == vpc = "validated"
Returned == vpc = "validated" /\ vres.kind = "returned"

\* entry e of the response names linkId l
Names(e, l) == e.t = "dict" /\ e.linkId = JStr(l)
\* entry e carries a string valueString or a mapping valueCoding
HasValue(e) == e.valueString.t = "str" \/ e.valueCoding.t = "dict"
\* l is named in the response / position of the first entry that names it
Named(l) == \E i \in DOMAIN obj.answers : Names(obj.answers[i], l)
FirstIdx(l) ==
    CHOOSE i \in DOMAIN obj.answers :
        /\ Names(obj.answers[i], l)
        /\ \A j \in 1..(i - 1) : ~Names(obj.answers[j], l)
\* l is there after filtering: its first entry carries a value
PresentAfterFiltering(l) == Named(l) /\ HasValue(obj.answers[FirstIdx(l)])

OutLinkIds == {vres.out[k].linkId : k \in DOMAIN vres.out}

(* C3: _validate_ppnq_answers returns a result only if every one of the     *)
(* eleven required linkIds is in the result; if one is missing after        *)
(* filtering, or the response is not a mapping with an 'answers' list, it   *)
(* raises and returns no AnswerSet.                                         *)
C3_ReturnsOnlyComplete ==
    Validated =>
        /\ vres.kind = "returned" =>
              \A k \in DOMAIN PpnqLinkIds : PpnqLinkIds[k] \in OutLinkIds
        /\ (obj.shape # "ok" \/ \E k \in DOMAIN PpnqLinkIds : ~PresentAfterFiltering(PpnqLinkIds[k]))
              => (vres.kind = "raised" /\ vres.out = <<>>)

\* the spec's example: only ppnq-q5 is missing, and the call raises
C3_Witness ==
    /\ Validated /\ vres.kind = "raised" /\ obj.shape = "ok"
    /\ ~PresentAfterFiltering("ppnq-q5")
    /\ \A k \in DOMAIN PpnqLinkIds :
          PpnqLinkIds[k] # "ppnq-q5" => PresentAfterFiltering(PpnqLinkIds[k])

\* answer o of the result is built from entry e of the response
BuiltFrom(o, e) ==
    IF e.valueString.t = "str"
      THEN o.kind = "valueString" /\ o.valueString = e.valueString.s
      ELSE /\ e.valueCoding.t = "dict"
           /\ o.kind = "valueCoding"
           /\ o.linkId # "ppnq-q9" =>
                 /\ o.valueCoding.code = PyStr(e.valueCoding.code)
                 /\ Truthy(e.valueCoding.system) => o.valueCoding.system = e.valueCoding.system.s
           /\ o.linkId = "ppnq-q9" /\ PyIntOk(PyStr(e.valueCoding.code)) =>
                 o.valueCoding.code = ToString(ClampNps(PyInt(PyStr(e.valueCoding.code))))

(* C4: in the output of _validate_ppnq_answers each linkId appears at most  *)
(* once, the answer kept for a linkId is built from the first entry of the  *)
(* response that names it, and an entry with neither a string valueString   *)
(* nor a mapping valueCoding is dropped.                                    *)
C4_FirstOccurrenceKept ==
    Returned =>
        /\ \A j, k \in DOMAIN vres.out : j # k => vres.out[j].linkId # vres.out[k].linkId
        /\ \A k \in DOMAIN vres.out :
              /\ Named(vres.out[k].linkId)
              /\ BuiltFrom(vres.out[k], obj.answers[FirstIdx(vres.out[k].linkId)])
        /\ \A i \in DOMAIN obj.answers :
              (obj.answers[i].linkId.t = "str" /\ FirstIdx(obj.answers[i].linkId.s) = i
                  /\ ~HasValue(obj.answers[i]))
                => obj.answers[i].linkId.s \notin OutLinkIds

\* a result for a response that names a linkId twice, with different values
C4_Witness ==
    /\ Returned
    /\ \E i, j \in DOMAIN obj.answers :
          /\ i < j
          /\ obj.answers[i].linkId.t = "str"
          /\ obj.answers[i].linkId = obj.answers[j].linkId
          /\ obj.answers[i] # obj.answers[j]

\* a result for a response with an entry that carries no value (it is dropped)
ValuelessDroppedReached ==
    /\ Returned
    /\ \E i \in DOMAIN obj.answers :
          obj.answers[i].linkId.t = "str" /\ ~HasValue(obj.answers[i])

NpsCodes == {ToString(n) : n \in 0..10}

(* C5: for every response that passes validation, the ppnq-q9 answer of the *)
(* validated AnswerSet is a coded value whose code is the string of an      *)
(* integer in 0..10 and whose system is the canonical NPS scale identifier, *)
(* whatever the service returned.                                           *)
C5_NpsCodedAndClamped ==
    Returned =>
        \A k \in DOMAIN vres.out :
            vres.out[k].linkId = "ppnq-q9" =>
                /\ vres.out[k].kind = "valueCoding"
                /\ vres.out[k].valueCoding.code \in NpsCodes
                /\ vres.out[k].valueCoding.system = NPS_SYSTEM

\* What does hold: a ppnq-q9 answer that is kept as a coding is clamped into
\* 0..10 ("14" becomes "10", a negative code "0") and gets the canonical system
CodedNpsClamped ==
    Returned =>
        \A k \in DOMAIN vres.out :
            (vres.out[k].linkId = "ppnq-q9"
                /\ obj.answers[FirstIdx("ppnq-q9")].valueString.t # "str") =>
                /\ vres.out[k].kind = "valueCoding"
                /\ vres.out[k].valueCoding.code \in NpsCodes
                /\ vres.out[k].valueCoding.display = vres.out[k].valueCoding.code
                /\ vres.out[k].valueCoding.system = NPS_SYSTEM
                /\ LET c == obj.answers[FirstIdx("ppnq-q9")].valueCoding.code IN
                   /\ c = JStr("14") => vres.out[k].valueCoding.code = "10"
                   /\ c = JStr(ToString(0 - MaxCodeMag)) => vres.out[k].valueCoding.code = "0"
                   /\ c = JStr("5") => vres.out[k].valueCoding.code = "5"
                   /\ c = JStr("abc") => vres.out[k].valueCoding.code = "7"

\* the spec's example is reached: the service gave "14" and validation passed
Code14Reached ==
    /\ Returned
    /\ obj.answers[FirstIdx("ppnq-q9")].valueCoding.code = JStr("14")

-----------------------------------------------------------------------------
(* gen_ppnq_answers_llm and _call_openai_json, inside main's row loop       *)
(*                                                                          *)
(* gen_ppnq_answers_llm reads the name `args` (line 518), which is a local  *)
(* of main and bound nowhere at module level: when the module runs as the   *)
(* script (lentry = "main") the name is unbound and evaluating it raises    *)
(* NameError before the first attempt. The function is also modelled as     *)
(* called from an importing program (lentry = "call"), which may have bound *)
(* the module attribute `args`, with or without a max_retries.              *)

\* the module global `args` as gen_ppnq_answers_llm finds it
ArgsUnbound == [bound |-> FALSE, has |-> FALSE, max_retries |-> 0]
ArgsNoAttr == [bound |-> TRUE, has |-> FALSE, max_retries |-> 0]
ArgsWith(m) == [bound |-> TRUE, has |-> TRUE, max_retries |-> m]

\* LLMConfig.max_retries: int() of LLM_MAX_RETRIES, any integer
CfgRetries == (0 - 1)..MaxCfgRetries

NoObj == [shape |-> "none", answers |-> <<>>]

\* responses the service may give: as asked, without ppnq-q5, not an object
AskedResponse ==
    [shape |-> "ok",
     answers |-> [k \in DOMAIN PpnqLinkIds |->
                    IF PpnqLinkIds[k] = "ppnq-q9"
                      THEN Entry(JStr("ppnq-q9"), JAbsent,
                                 Coding(JStr(PromptSystem), JStr("5"), JStr("5")))
                      ELSE Entry(JStr(PpnqLinkIds[k]), JStr("text"), NoCoding)]]
ResponseWithoutQ5 ==
    [shape |-> "ok",
     answers |-> SubSeq(AskedResponse.answers, 1, 5) \o SubSeq(AskedResponse.answers, 7, 11)]
ResponseNotAnObject == [shape |-> "notdict", answers |-> <<>>]
Responses == {AskedResponse, ResponseWithoutQ5, ResponseNotAnObject}

MissingErr == "ValueError: Missing required answers"

LlmInit ==
    /\ lentry \in {"main", "call"}
    /\ gargs \in {ArgsUnbound, ArgsNoAttr} \cup {ArgsWith(m) : m \in 0..MaxRetries}
    /\ lentry = "main" => gargs = ArgsUnbound
    /\ llm \in BOOLEAN
    /\ dry_run \in BOOLEAN
    /\ lentry = "call" => (llm /\ ~dry_run)
    /\ sdkInstalled \in BOOLEAN
    /\ apiKey \in BOOLEAN
    /\ cfgRetries \in CfgRetries
    /\ lrows \in 1..MaxLlmRows
    /\ lentry = "call" => lrows = 1
    /\ lrow = 1
    /\ lpc = "row"
    /\ attempt = 0
    /\ restAttempt = 0
    /\ last_err = "none"
    /\ lerr = "none"
    /\ lobj = NoObj
    /\ lanswers = <<>>
    /\ sdkReqs = 0
    /\ restReqs = 0
    /\ lchunk \in {1, DefaultChunkSize}
    /\ lentry = "call" => lchunk = DefaultChunkSize
    /\ lfiles = <<>>

LlmIdle ==
    /\ lentry = "none"
    /\ gargs = ArgsUnbound
    /\ llm = FALSE
    /\ dry_run = FALSE
    /\ sdkInstalled = FALSE
    /\ apiKey = FALSE
    /\ cfgRetries = DefaultMaxRetries
    /\ lrows = 0
    /\ lrow = 1
    /\ lpc = "idle"
    /\ attempt = 0
    /\ restAttempt = 0
    /\ last_err = "none"
    /\ lerr = "none"
    /\ lobj = NoObj
    /\ lanswers = <<>>
    /\ sdkReqs = 0
    /\ restReqs = 0
    /\ lchunk = DefaultChunkSize
    /\ lfiles = <<>>

llmConfig == <<lentry, gargs, llm, dry_run, sdkInstalled, apiKey, cfgRetries, lrows, lchunk>>

\* main: `if args.llm and not args.dry_run:` chooses the generator of the run
UsesLlm == llm /\ ~dry_run

\* main, ppnq branch, a row of a run without --llm (or with --dry-run):
\* answers = gen_ppnq_answers_dry(...); build_qr; resources.append
MainRowDry ==
    /\ lpc = "row" /\ lrow <= lrows /\ ~UsesLlm
    /\ lanswers' = Append(lanswers, [by |-> "dry", out |-> <<>>])
    /\ lrow' = lrow + 1
    /\ UNCHANGED <<llmConfig, lpc, attempt, restAttempt, last_err, lerr, lobj, sdkReqs, restReqs, lfiles, notLlm>>

\* gen_ppnq_answers_llm is entered for the row: prompt built, last_err = None,
\* and `range(max(1, args.max_retries))` is evaluated
LlmEnter ==
    /\ lpc = "row" /\ lrow <= lrows /\ UsesLlm
    /\ attempt' = 0
    /\ last_err' = "none"
    /\ sdkReqs' = 0
    /\ restReqs' = 0
    /\ IF ~gargs.bound THEN lpc' = "failed" /\ lerr' = "NameError"
       ELSE IF ~gargs.has THEN lpc' = "failed" /\ lerr' = "AttributeError"
       ELSE lpc' = "loop" /\ lerr' = lerr
    /\ UNCHANGED <<llmConfig, lrow, restAttempt, lobj, lanswers, lfiles, notLlm>>

\* the `except Exception` of the retry loop: which errors it catches
C7m_CatchAllButMissing(e) == e # MissingErr
Caught(e) == TRUE

\* max(1, args.max_retries)
RetryBound(m) == Max(1, m)

\* an exception e is raised inside the try block of the retry loop
TryRaises(e) ==
    IF Caught(e)
      THEN /\ last_err' = e
           /\ lpc' = "loop"
           /\ lerr' = lerr
      ELSE /\ last_err' = last_err
           /\ lpc' = "failed"
           /\ lerr' = e

\* one more iteration of `for _ in range(...)`: _call_openai_json is called
LlmAttempt ==
    /\ lpc = "loop" /\ attempt < RetryBound(gargs.max_retries)
    /\ attempt' = attempt + 1
    /\ lpc' = "sdk"
    /\ lobj' = NoObj
    /\ UNCHANGED <<llmConfig, lrow, restAttempt, last_err, lerr, lanswers, sdkReqs, restReqs, lfiles, notLlm>>

\* the loop is over without a return: `raise last_err`
LlmExhausted ==
    /\ lpc = "loop" /\ attempt >= RetryBound(gargs.max_retries)
    /\ lpc' = "failed"
    /\ lerr' = last_err
    /\ UNCHANGED <<llmConfig, lrow, attempt, restAttempt, last_err, lobj, lanswers, sdkReqs, restReqs, lfiles, notLlm>>

\* _call_openai_json, preferred client: the request succeeds and the body parses
SdkReturns ==
    /\ lpc = "sdk" /\ sdkInstalled
    /\ sdkReqs' = sdkReqs + 1
    /\ \E r \in Responses : lobj' = r
    /\ lpc' = "validate"
    /\ UNCHANGED <<llmConfig, lrow, attempt, restAttempt, last_err, lerr, lanswers, restReqs, lfiles, notLlm>>

\* _call_openai_json, preferred client fails (not installed: no request sent;
\* transport error or a body that is not JSON: a request was sent); the
\* `except` falls back to the raw REST call, which needs an API key
SdkFails ==
    /\ lpc = "sdk"
    /\ sdkReqs' = IF sdkInstalled THEN sdkReqs + 1 ELSE sdkReqs
    /\ IF apiKey
         THEN /\ lpc' = "rest"
              /\ restAttempt' = 0
              /\ UNCHANGED <<last_err, lerr>>
         ELSE /\ TryRaises("RuntimeError: OPENAI_API_KEY is not set")
              /\ UNCHANGED restAttempt
    /\ UNCHANGED <<llmConfig, lrow, attempt, lobj, lanswers, restReqs, lfiles, notLlm>>

\* _call_openai_json, REST fallback, one iteration of
\* `for attempt in range(cfg.max_retries)`: status 200 and a body that parses
RestReturns ==
    /\ lpc = "rest" /\ restAttempt < cfgRetries
    /\ restReqs' = restReqs + 1
    /\ \E r \in Responses : lobj' = r
    /\ lpc' = "validate"
    /\ UNCHANGED <<llmConfig, lrow, attempt, restAttempt, last_err, lerr, lanswers, sdkReqs, lfiles, notLlm>>

\* REST fallback: another status, or a body that does not parse: sleep, go on
RestBadReply ==
    /\ lpc = "rest" /\ restAttempt < cfgRetries
    /\ restReqs' = restReqs + 1
    /\ restAttempt' = restAttempt + 1
    /\ UNCHANGED <<llmConfig, lrow, lpc, attempt, last_err, lerr, lobj, lanswers, sdkReqs, lfiles, notLlm>>

\* REST fallback: requests.post itself raises (transport error, timeout)
RestTransportError ==
    /\ lpc = "rest" /\ restAttempt < cfgRetries
    /\ restReqs' = restReqs + 1
    /\ TryRaises("requests.RequestException")
    /\ UNCHANGED <<llmConfig, lrow, attempt, restAttempt, lobj, lanswers, sdkReqs, lfiles, notLlm>>

\* REST fallback: the inner loop is over, `raise RuntimeError(... r.status_code ...)`;
\* r is unbound when the loop body never ran
RestExhausted ==
    /\ lpc = "rest" /\ restAttempt >= cfgRetries
    /\ TryRaises(IF restAttempt = 0 THEN "UnboundLocalError"
                 ELSE "RuntimeError: OpenAI REST call failed")
    /\ UNCHANGED <<llmConfig, lrow, attempt, restAttempt, lobj, lanswers, sdkReqs, restReqs, lfiles, notLlm>>

\* gen_ppnq_answers_llm: `return _validate_ppnq_answers(obj)`; on a return,
\* main builds the QR and goes on to the next row
LlmValidate ==
    /\ lpc = "validate"
    /\ LET r == ValidatePpnqAnswers(lobj) IN
         IF r.kind = "returned"
           THEN /\ lanswers' = Append(lanswers, [by |-> "llm", out |-> r.out])
                /\ lrow' = lrow + 1
                /\ lpc' = "row"
                /\ UNCHANGED <<last_err, lerr>>
           ELSE /\ TryRaises(r.err)
                /\ UNCHANGED <<lanswers, lrow>>
    /\ UNCHANGED <<llmConfig, attempt, restAttempt, lobj, sdkReqs, restReqs, lfiles, notLlm>>

\* main: `for row_ci in header_rows` has gone through every row
C21m_AfterFirstRow == lrow > 1
RowLoopOver == lrow > lrows

\* write_bundles(resources, out, prefix, chunk_size): the paths it returns,
\* one per written file
WrittenPaths(n, pfx, cs) == [i \in 1..CeilDiv(n, Max(1, cs)) |-> BundlePath(pfx, i - 1)]

\* main: the row loop is over, write_bundles is called with the resources of
\* the rows, the summary is printed (for an importer's call the function has
\* returned and nothing is written)
MainRowsDone ==
    /\ lpc = "row" /\ RowLoopOver
    /\ lpc' = "done"
    /\ lfiles' = IF lentry = "main" THEN WrittenPaths(Len(lanswers), "ppnq", lchunk) ELSE <<>>
    /\ UNCHANGED <<llmConfig, lrow, attempt, restAttempt, last_err, lerr, lobj, lanswers, sdkReqs, restReqs, notLlm>>

LlmNext ==
    \/ MainRowDry
    \/ LlmEnter
    \/ LlmAttempt
    \/ LlmExhausted
    \/ SdkReturns
    \/ SdkFails
    \/ RestReturns
    \/ RestBadReply
    \/ RestTransportError
    \/ RestExhausted
    \/ LlmValidate
    \/ MainRowsDone

-----------------------------------------------------------------------------
(* Claims about the retry loop *)

(* C6: when the External-Service Generator is used for a row of a run of    *)
(* the script, a failed attempt is followed by another until the retry      *)
(* bound is reached: the run ends in an error only after at least one       *)
(* attempt was made, and with the error of its last attempt; and no row of  *)
(* such a run gets placeholder (dry-run) answers.                           *)
C6_RetryThenLastErrorFatal ==
    (lentry = "main" /\ UsesLlm) =>
        /\ lpc = "failed" => (attempt >= 1 /\ last_err # "none" /\ lerr = last_err)
        /\ \A k \in DOMAIN lanswers : lanswers[k].by = "llm"

\* What does hold: called with `args` bound to an object with max_retries, the
\* loop makes max(1, args.max_retries) attempts before the last error propagates,
\* and never fewer
LoopRunsToBound ==
    (lentry = "call" /\ gargs.has /\ lpc = "failed") =>
        /\ attempt = Max(1, gargs.max_retries)
        /\ lerr = last_err /\ last_err # "none"

\* _validate_ppnq_answers raises the missing-answers error on the object at hand
RaisesMissing == lpc = "validate" /\ ValidatePpnqAnswers(lobj).err = MissingErr

-----------------------------------------------------------------------------
(* Abort of the run *)

\* every row of the table has been generated and assembled, none failed
AllRowsAssembled == Len(lanswers) = lrows /\ lerr = "none"

(* C21: a fatal error while generating or assembling a row aborts the whole *)
(* run of qr_bundle_maker: the failed row is not skipped (no later row is   *)
(* processed), and no partial dataset is left, since no batch file is       *)
(* written before every row of the table has been generated and assembled   *)
(* successfully.                                                            *)
C21_AbortWritesNothing ==
    [][ lentry = "main" =>
          /\ lfiles' # lfiles => (lfiles = <<>> /\ AllRowsAssembled)
          /\ lpc = "failed" =>
                (lfiles = <<>> /\ lfiles' = <<>> /\ lanswers' = lanswers /\ lrow' = lrow
                   /\ lpc' = "failed") ]_vars

\* the state form of the same: files exist only after all rows, a failed run has none
FilesOnlyAfterAllRows ==
    lentry = "main" =>
        /\ lfiles # <<>> => (AllRowsAssembled /\ lpc = "done")
        /\ lpc = "failed" => (lfiles = <<>> /\ Len(lanswers) = lrow - 1)

\* a run of several rows has aborted with rows left over and nothing written
C21_Witness ==
    /\ lentry = "main" /\ lpc = "failed" /\ lerr # "none"
    /\ lrows >= 2 /\ lrow <= lrows
    /\ lfiles = <<>>

\* a run whose rows all succeeded has written one file per row
AllRowsThenFiles ==
    /\ lentry = "main" /\ lpc = "done" /\ lrows = 2 /\ lchunk = 1
    /\ lfiles = <<"ppnq_batch_bundle_001.json", "ppnq_batch_bundle_002.json">>

-----------------------------------------------------------------------------
(* Requests sent for one row *)

PreferredWithinRetryBound ==
    gargs.has => (sdkReqs <= attempt /\ attempt <= RetryBound(gargs.max_retries))
FallbackWithinProduct ==
    gargs.has =>
        /\ restReqs <= attempt * Max(0, cfgRetries)
        /\ restAttempt <= Max(0, cfgRetries)
FallbackAfterPreferred ==
    [][restReqs' > restReqs => (lpc = "rest" /\ (sdkInstalled => sdkReqs = attempt))]_vars
FallbackBeyondRetryBound ==
    /\ gargs.has /\ gargs.max_retries = 2 /\ cfgRetries = 2
    /\ restReqs = 4 /\ sdkReqs <= 2

-----------------------------------------------------------------------------
(* The seeded random source                                                 *)
(*                                                                          *)
(* random.Random is a deterministic generator: its state after seeding with *)
(* an integer is a function of the seed, and every draw is a function of    *)
(* the state. It is modelled by a linear congruential generator; seeded     *)
(* with None it starts from a state the operating system chooses.           *)

RngMod == 65537
RngMul == 75
RngInc == 74

RngNext(s) == (s * RngMul + RngInc) % RngMod

\* random.Random(seed) for an integer seed
RngSeeded(n) == RngNext(n % RngMod)

\* a seed: given (--seed N) or not (the default None)
NoSeed == [given |-> FALSE, value |-> 0]
Seed(n) == [given |-> TRUE, value |-> n]

\* states an unseeded generator may start from
EntropyStates == {RngSeeded(n) : n \in 0..(MaxSeed + 1)}

\* rng = random.Random(args.seed): the states it may start in
C8m_SeedIgnored(seed) == EntropyStates
RngStart(seed) == IF seed.given THEN {RngSeeded(seed.value)} ELSE EntropyStates

\* rng.random(): the draw is x / RngMod, in [0, 1)
RngRandom(s) == [rng |-> RngNext(s), x |-> RngNext(s)]
\* rng.choice(seq)
RngChoice(s, seq) == [rng |-> RngNext(s), v |-> seq[(RngNext(s) * Len(seq)) \div RngMod + 1]]
\* rng.randint(a, b)
RngRandint(s, a, b) == [rng |-> RngNext(s), v |-> a + (RngNext(s) * (b - a + 1)) \div RngMod]

-----------------------------------------------------------------------------
(* Questionnaires and the two offline answer strategies *)

\* s.startswith(p)
StartsWith(s, p) == Len(s) >= Len(p) /\ SubSeq(s, 1, Len(p)) = p

\* an item of a Questionnaire: linkId is "" with has = FALSE when the key is absent
Item(l, ty) == [has |-> TRUE, linkId |-> l, type |-> ty]
ItemWithoutLinkId(ty) == [has |-> FALSE, linkId |-> "", type |-> ty]

NreqItems == 17
BUILTIN_NREQ == [i \in 1..NreqItems |-> Item("nreq-q" \o ToString(i), "choice")]
BUILTIN_PPNQ ==
    [k \in DOMAIN PpnqLinkIds |->
        Item(PpnqLinkIds[k], IF PpnqLinkIds[k] = "ppnq-q9" THEN "choice" ELSE "string")]

\* definitions a --questionnaire-file may hold: choice items under other
\* linkIds, a nreq-q linkId on an item that is no choice, an item without
\* linkId; and a definition without items
ExternalMixed ==
    << Item("nreq-q1", "choice"), Item("q2", "choice"), Item("nreq-q3", "string"),
       ItemWithoutLinkId("group"), Item("nreq-q", "choice") >>
ExternalEmpty == << >>
\* a --questionnaire-file for --mode ppnq: an open-ended definition of its own
ExternalPpnq ==
    << Item("ppnq-q1", "string"), Item("exp-q2", "string"), Item("ppnq-q9", "choice") >>

NREQ_LIKERT_SYSTEM == "http://example.org/fhir/CodeSystem/nreq-likert-3"
NREQ_LIKERT_CODE == <<"disagree", "neutral", "agree">>
C9m_DisplayShifted == <<"Not sure", "Mostly agree", "Mostly disagree">>
NREQ_LIKERT_DISPLAY == <<"Mostly disagree", "Not sure", "Mostly agree">>

\* parse_likert_dist: three numbers with a positive sum, kept here as the
\* weights w with probs[i] = w[i] / (w[1] + w[2] + w[3]); no option: 1/3 each
LikertDists == { <<1, 1, 1>>, <<2, 5, 3>>, <<1, 0, 0>>, <<0 - 1, 1, 1>> }

\* the ordinal of a draw x / RngMod:
\* `if r < probs[0]: 1 elif r < probs[0] + probs[1]: 2 else: 3`
Ordinal(x, w) ==
    LET total == w[1] + w[2] + w[3] IN
    IF x * total < w[1] * RngMod THEN 1
    ELSE IF x * total < (w[1] + w[2]) * RngMod THEN 2
    ELSE 3

\* gen_nreq_answers: items = [it for it in ... if it.get("linkId", "").startswith("nreq-q")]
IsNreqItem(it) == StartsWith(it.linkId, "nreq-q")

LikertAnswer(l, v) ==
    CodingAnswer(l, NREQ_LIKERT_SYSTEM, NREQ_LIKERT_CODE[v], NREQ_LIKERT_DISPLAY[v])

\* gen_nreq_answers(questionnaire, rng, likert_probs): [answers, rng]
RECURSIVE GenNreqLoop(_, _, _, _)
GenNreqLoop(items, s, w, answers) ==
    IF items = <<>> THEN [answers |-> answers, rng |-> s]
    ELSE IF ~IsNreqItem(Head(items)) THEN GenNreqLoop(Tail(items), s, w, answers)
    ELSE LET d == RngRandom(s) IN
         GenNreqLoop(Tail(items), d.rng, w,
                     Append(answers, LikertAnswer(Head(items).linkId, Ordinal(d.x, w))))
GenNreqAnswers(questionnaire, s, w) == GenNreqLoop(questionnaire, s, w, <<>>)

\* _dummy_sentence
Stems ==
    << "Overall, I felt that", "From my perspective,", "In general,",
       "My experience was that", "I noticed that", "It seemed to me that" >>
Phrases ==
    << " the team communicated clearly", " the care was well coordinated",
       " I was listened to and involved", " safety was taken seriously",
       " my goals were understood", " follow-up plans were consistent",
       " access was straightforward" >>
C23m_OneDrawSentence(topic, s) ==
    LET a == RngChoice(s, Stems) IN
    [rng |-> a.rng, v |-> a.v \o Phrases[1] \o " regarding " \o topic \o "."]
DummySentence(topic, s) ==
    LET a == RngChoice(s, Stems)
        b == RngChoice(a.rng, Phrases) IN
    [rng |-> b.rng, v |-> a.v \o b.v \o " regarding " \o topic \o "."]

\* gen_ppnq_answers_dry: topics, in the dict's order
Topics ==
    << <<"ppnq-q1", "access to services">>,
       <<"ppnq-q2", "meeting my needs">>,
       <<"ppnq-q3a", "seeing the same clinicians">>,
       <<"ppnq-q3b", "information sharing across professionals">>,
       <<"ppnq-q4", "coordination between specialists">>,
       <<"ppnq-q5", "feeling safe during therapies">>,
       <<"ppnq-q6", "listening to my preferences">>,
       <<"ppnq-q7", "self-management support">>,
       <<"ppnq-q8", "trust in the team">> >>

ReasonTop == "Excellent teamwork and clear goals."
ReasonMid == "Good care overall but some waits."
ReasonLow == "Several issues affected my experience."

\* reason = top if nps >= 9 else (mid if nps >= 7 else low)
C10m_TopAbove9(nps) == IF nps > 9 THEN ReasonTop ELSE IF nps >= 7 THEN ReasonMid ELSE ReasonLow
NpsReason(nps) == IF nps >= 9 THEN ReasonTop ELSE IF nps >= 7 THEN ReasonMid ELSE ReasonLow

RECURSIVE GenDryText(_, _, _)
GenDryText(topics, s, answers) ==
    IF topics = <<>> THEN [answers |-> answers, rng |-> s]
    ELSE LET d == DummySentence(Head(topics)[2], s) IN
         GenDryText(Tail(topics), d.rng, Append(answers, StringAnswer(Head(topics)[1], d.v)))

\* gen_ppnq_answers_dry(questionnaire, rng): [answers, rng]
GenPpnqAnswersDry(questionnaire, s) ==
    LET t == GenDryText(Topics, s, <<>>)
        n == RngRandint(t.rng, 0, 10)
        code == ToString(n.v) IN
    [answers |-> t.answers \o
                 << CodingAnswer("ppnq-q9", NPS_SYSTEM, code, code),
                    StringAnswer("ppnq-q9-text", NpsReason(n.v)) >>,
     rng |-> n.rng]

-----------------------------------------------------------------------------
(* main's row loop with an offline strategy, run twice on the same command  *)
(* line (runs 1 and 2 share the options and the number of rows; each reads  *)
(* a header table of its own)                                               *)

Runs == {1, 2}

\* a row of a header table, by its patient cell; NoRow before the first row
NoRow == [patientid |-> JNull]
\* the rows a run's table may hold: every row of run 1 names patient P1, a
\* row of run 2 names P1 or P2
TableRows(r) ==
    IF r = 1 THEN {[patientid |-> JStr("P1")]}
    ELSE {[patientid |-> JStr("P1")], [patientid |-> JStr("P2")]}

\* load_questionnaire: the file given, else the built-in of the mode
Questionnaires(mode) ==
    IF mode = "nreq" THEN {BUILTIN_NREQ, ExternalMixed, ExternalEmpty}
    ELSE {BUILTIN_PPNQ, ExternalPpnq}

GenInit ==
    /\ gmode \in {"nreq", "ppnq"}
    /\ gseed \in {NoSeed} \cup {Seed(n) : n \in 0..MaxSeed}
    /\ glikert \in LikertDists
    /\ gmode = "ppnq" => glikert = <<1, 1, 1>>
    /\ gquest \in Questionnaires(gmode)
    /\ grows \in 1..MaxGenRows
    /\ grng \in [Runs -> RngStart(gseed)]
    /\ grow = [r \in Runs |-> 1]
    /\ ganswers = [r \in Runs |-> <<>>]
    /\ grow_ci = [r \in Runs |-> NoRow]

GenIdle ==
    /\ gmode = "none"
    /\ gseed = NoSeed
    /\ glikert = <<1, 1, 1>>
    /\ gquest = <<>>
    /\ grows = 0
    /\ grng = [r \in Runs |-> 0]
    /\ grow = [r \in Runs |-> 1]
    /\ ganswers = [r \in Runs |-> <<>>]
    /\ grow_ci = [r \in Runs |-> NoRow]

\* main, nreq branch, one row of run r: `for row_ci in header_rows:`
\* answers = gen_nreq_answers(questionnaire, rng, likert_probs)
GenRowNreq(r) ==
    /\ gmode = "nreq" /\ grow[r] <= grows
    /\ \E row_ci \in TableRows(r) : grow_ci' = [grow_ci EXCEPT ![r] = row_ci]
    /\ LET g == GenNreqAnswers(gquest, grng[r], glikert) IN
         /\ ganswers' = [ganswers EXCEPT ![r] = Append(@, g.answers)]
         /\ grng' = [grng EXCEPT ![r] = g.rng]
    /\ grow' = [grow EXCEPT ![r] = @ + 1]
    /\ UNCHANGED <<gmode, gseed, glikert, gquest, grows, notGen>>

\* main, ppnq branch without --llm, one row of run r: `for row_ci in header_rows:`
\* answers = gen_ppnq_answers_dry(questionnaire, rng)
GenRowPpnqDry(r) ==
    /\ gmode = "ppnq" /\ grow[r] <= grows
    /\ \E row_ci \in TableRows(r) : grow_ci' = [grow_ci EXCEPT ![r] = row_ci]
    /\ LET g == GenPpnqAnswersDry(gquest, grng[r]) IN
         /\ ganswers' = [ganswers EXCEPT ![r] = Append(@, g.answers)]
         /\ grng' = [grng EXCEPT ![r] = g.rng]
    /\ grow' = [grow EXCEPT ![r] = @ + 1]
    /\ UNCHANGED <<gmode, gseed, glikert, gquest, grows, notGen>>

GenNext ==
    \/ \E r \in Runs : GenRowNreq(r)
    \/ \E r \in Runs : GenRowPpnqDry(r)

-----------------------------------------------------------------------------
(* Claims about the offline strategies (specification SpecGen) *)

GenDone(r) == grow[r] > grows

UnseededRunsDiffer ==
    /\ ~gseed.given /\ GenDone(1) /\ GenDone(2)
    /\ ganswers[1] # ganswers[2]

\* the answers of an AnswerSet under a linkId
AnswersFor(a, l) == {j \in DOMAIN a : a[j].linkId = l}

\* the three code/display pairs of the Likert scale, by ordinal
LikertPairs ==
    << <<"disagree", "Mostly disagree">>, <<"neutral", "Not sure">>,
       <<"agree", "Mostly agree">> >>
IsLikertAnswer(x) ==
    /\ x.kind = "valueCoding"
    /\ \E v \in 1..3 :
          /\ x.valueCoding.code = LikertPairs[v][1]
          /\ x.valueCoding.display = LikertPairs[v][2]

(* C9 as stated: in every AnswerSet of the sampler, every choice-type item  *)
(* of the definition has exactly one answer, carrying one of the three      *)
(* fixed code/display pairs, and every linkId of the definition has an      *)
(* answer.                                                                  *)
C9_EveryChoiceItemAnswered ==
    gmode = "nreq" =>
        \A r \in Runs : \A k \in DOMAIN ganswers[r] :
            LET a == ganswers[r][k] IN
            /\ \A i \in DOMAIN gquest :
                  gquest[i].type = "choice" =>
                      /\ gquest[i].has
                      /\ Cardinality(AnswersFor(a, gquest[i].linkId)) = 1
                      /\ \A j \in AnswersFor(a, gquest[i].linkId) : IsLikertAnswer(a[j])
            /\ \A i \in DOMAIN gquest :
                  gquest[i].has => AnswersFor(a, gquest[i].linkId) # {}

\* the top-level items the sampler answers: those whose linkId begins nreq-q
PrefixedItems(q) ==
    SelectSeq(q, LAMBDA it : Len(it.linkId) >= 6 /\ SubSeq(it.linkId, 1, 6) = "nreq-q")

(* C9 as the code has it: every AnswerSet of the sampler holds, in the      *)
(* definition's order, exactly one answer for each top-level item whose     *)
(* linkId starts with "nreq-q" (whatever its type) and none for any other   *)
(* item; each answer carries the Likert system and one of the three fixed   *)
(* code/display pairs; for the built-in definition, whose 17 items are all  *)
(* choice items named nreq-q1..nreq-q17, the AnswerSet has exactly one      *)
(* answer for every linkId of the definition.                               *)
C9_OneAnswerPerPrefixedItem ==
    gmode = "nreq" =>
        \A r \in Runs : \A k \in DOMAIN ganswers[r] :
            LET a == ganswers[r][k]
                items == PrefixedItems(gquest) IN
            /\ Len(a) = Len(items)
            /\ \A j \in DOMAIN a :
                  /\ a[j].linkId = items[j].linkId
                  /\ IsLikertAnswer(a[j])
                  /\ a[j].valueCoding.system = "http://example.org/fhir/CodeSystem/nreq-likert-3"
            /\ gquest = BUILTIN_NREQ =>
                  /\ Len(a) = 17
                  /\ \A i \in DOMAIN gquest :
                        /\ gquest[i].type = "choice"
                        /\ Cardinality(AnswersFor(a, gquest[i].linkId)) = 1

\* a row of the built-in definition answered with all three ordinals drawn
C9_Witness ==
    /\ gmode = "nreq" /\ gquest = BUILTIN_NREQ
    /\ Len(ganswers[1]) >= 1
    /\ \A v \in 1..3 : \E j \in DOMAIN ganswers[1][1] :
          ganswers[1][1][j].valueCoding.code = LikertPairs[v][1]

\* a definition with a choice item outside the prefix has been sampled
UnprefixedChoiceSampled ==
    /\ gmode = "nreq" /\ gquest = ExternalMixed
    /\ Len(ganswers[1]) >= 1

\* the justification sentence of a score, by tier
TierSentence(n) ==
    IF n >= 9 THEN "Excellent teamwork and clear goals."
    ELSE IF n \in {7, 8} THEN "Good care overall but some waits."
    ELSE "Several issues affected my experience."

\* the scores of an AnswerSet's ppnq-q9 answers
ScoresOf(a) ==
    {n \in 0..10 : \E j \in AnswersFor(a, "ppnq-q9") : a[j].valueCoding.code = ToString(n)}

(* C10: every AnswerSet of the placeholder generator has exactly one        *)
(* ppnq-q9 answer and one ppnq-q9-text answer; the ppnq-q9 code (and        *)
(* display) is the string of an integer n in 0..10, and the ppnq-q9-text    *)
(* is the top-tier sentence if n >= 9, the mid-tier sentence if n is 7 or   *)
(* 8, and the low-tier sentence otherwise, for that same n.                 *)
C10_ReasonFollowsScore ==
    gmode = "ppnq" =>
        \A r \in Runs : \A k \in DOMAIN ganswers[r] :
            LET a == ganswers[r][k] IN
            /\ Cardinality(AnswersFor(a, "ppnq-q9")) = 1
            /\ Cardinality(AnswersFor(a, "ppnq-q9-text")) = 1
            /\ \A j \in AnswersFor(a, "ppnq-q9") : \A t \in AnswersFor(a, "ppnq-q9-text") :
                  /\ a[j].kind = "valueCoding"
                  /\ a[t].kind = "valueString"
                  /\ \E n \in 0..10 :
                        /\ a[j].valueCoding.code = ToString(n)
                        /\ a[j].valueCoding.display = ToString(n)
                        /\ a[t].valueString = TierSentence(n)

\* one run has drawn a score of each tier, the boundary scores 9 and 7 or 8
\* among them
C10_Witness ==
    /\ gmode = "ppnq"
    /\ \E r \in Runs :
          LET drawn == UNION {ScoresOf(ganswers[r][k]) : k \in DOMAIN ganswers[r]} IN
          /\ 9 \in drawn
          /\ drawn \cap {7, 8} # {}
          /\ drawn \cap 0..6 # {}

\* the linkIds of a definition's items
DefinitionLinkIds(q) == {q[i].linkId : i \in {i \in DOMAIN q : q[i].has}}

(* C11: every linkId of every AnswerSet an offline strategy hands to the    *)
(* assembler is the linkId of an item of the questionnaire definition the   *)
(* run uses, built-in or supplied by file.                                  *)
C11_AnswerLinkIdsInDefinition ==
    \A r \in Runs : \A k \in DOMAIN ganswers[r] : \A j \in DOMAIN ganswers[r][k] :
        ganswers[r][k][j].linkId \in DefinitionLinkIds(gquest)

\* the sampler answers items of the definition only, and the placeholder
\* generator stays within the built-in definition
SamplerWithinDefinition ==
    (gmode = "nreq" \/ gquest = BUILTIN_PPNQ) => C11_AnswerLinkIdsInDefinition

\* the placeholder generator has answered a row under a definition from a file
ExternalPpnqAnswered ==
    /\ gmode = "ppnq" /\ gquest = ExternalPpnq
    /\ Len(ganswers[1]) >= 1

\* the state of the random source n draws after s
RECURSIVE RngAfter(_, _)
RngAfter(s, n) == IF n = 0 THEN s ELSE RngAfter(RngNext(s), n - 1)

\* the draws an AnswerSet stands for: one per sampled item; two per free-text
\* item (the placeholder sentences) plus one for the score
PlaceholderTexts(answers) ==
    {k \in DOMAIN answers : answers[k].kind = "valueString" /\ answers[k].linkId # "ppnq-q9-text"}
Scores(answers) == {k \in DOMAIN answers : answers[k].kind = "valueCoding"}
DrawsOfRow(answers) ==
    IF gmode = "nreq" THEN Len(answers)
    ELSE 2 * Cardinality(PlaceholderTexts(answers)) + Cardinality(Scores(answers))

\* the AnswerSet of the k-th row as a function of the seed, the questionnaire,
\* the distribution and k, with d draws taken by each earlier row
KthAnswerSet(k, d) ==
    LET s == RngAfter(RngSeeded(gseed.value), (k - 1) * d) IN
    IF gmode = "nreq" THEN GenNreqAnswers(gquest, s, glikert).answers
    ELSE GenPpnqAnswersDry(gquest, s).answers
DrawsPerRow == DrawsOfRow(KthAnswerSet(1, 0))

(* C23: the deterministic sampler and the placeholder generator take a      *)
(* fixed number of draws from the seeded random source per row (one per     *)
(* sampled item; two per free-text item plus one for the score), whatever   *)
(* the row holds, so the AnswerSet of the k-th row depends only on the      *)
(* seed, the questionnaire, the distribution and k, and on no field value   *)
(* of any row.                                                              *)
C23_FixedDrawsRowsIgnored ==
    gseed.given =>
        \A r \in Runs :
            /\ grng[r] = RngAfter(RngSeeded(gseed.value), Len(ganswers[r]) * DrawsPerRow)
            /\ \A k \in DOMAIN ganswers[r] :
                  /\ DrawsOfRow(ganswers[r][k]) = DrawsPerRow
                  /\ ganswers[r][k] = KthAnswerSet(k, DrawsPerRow)

\* two seeded runs over tables that differ in the row just read have both
\* generated several rows, each taking draws
C23_Witness ==
    /\ gseed.given /\ DrawsPerRow > 0
    /\ Len(ganswers[1]) >= 2 /\ Len(ganswers[2]) = Len(ganswers[1])
    /\ grow_ci[1] # grow_ci[2]
    /\ ganswers[1][1] # ganswers[1][2]

\* the placeholder generator takes 19 draws per row, the sampler 17 on the
\* built-in definition
DrawCountsReached ==
    /\ gseed.given /\ Len(ganswers[1]) >= 1
    /\ \/ gmode = "ppnq" /\ DrawsPerRow = 19
       \/ gmode = "nreq" /\ gquest = BUILTIN_NREQ /\ DrawsPerRow = 17

-----------------------------------------------------------------------------
(* Text helpers (str methods the scripts use) *)

IsDigit(c) == c \in {"0", "1", "2", "3", "4", "5", "6", "7", "8", "9"}
DigitVal(c) == CHOOSE d \in 0..9 : SubSeq("0123456789", d + 1, d + 1) = c

\* the number a string of digits denotes
RECURSIVE Num(_)
Num(s) == IF s = "" THEN 0 ELSE Num(SubSeq(s, 1, Len(s) - 1)) * 10 + DigitVal(SubSeq(s, Len(s), Len(s)))

\* s with every digit replaced by 9
RECURSIVE Shape(_)
Shape(s) ==
    IF s = "" THEN ""
    ELSE (IF IsDigit(SubSeq(s, 1, 1)) THEN "9" ELSE SubSeq(s, 1, 1)) \o Shape(Tail(s))

\* c in s, s.endswith(p), s[n:], s[:n]
Contains(s, c) == \E i \in 1..Len(s) : i + Len(c) - 1 <= Len(s) /\ SubSeq(s, i, i + Len(c) - 1) = c
EndsWith(s, p) == Len(s) >= Len(p) /\ SubSeq(s, Len(s) - Len(p) + 1, Len(s)) = p
StrFrom(s, n) == IF Len(s) <= n THEN "" ELSE SubSeq(s, n + 1, Len(s))
StrUpTo(s, n) == IF Len(s) <= n THEN s ELSE SubSeq(s, 1, n)

\* s.strip(), for blanks
RECURSIVE LStrip(_)
LStrip(s) == IF s # "" /\ SubSeq(s, 1, 1) = " " THEN LStrip(Tail(s)) ELSE s
RECURSIVE RStrip(_)
RStrip(s) == IF s # "" /\ SubSeq(s, Len(s), Len(s)) = " " THEN RStrip(SubSeq(s, 1, Len(s) - 1)) ELSE s
Strip(s) == RStrip(LStrip(s))

\* s.lower() / s.upper(), letter by letter
UpperLetters == "ABCDEFGHIJKLMNOPQRSTUVWXYZ"
LowerLetters == "abcdefghijklmnopqrstuvwxyz"
LowerChar(c) ==
    IF \E i \in 1..26 : SubSeq(UpperLetters, i, i) = c
    THEN LET i == CHOOSE i \in 1..26 : SubSeq(UpperLetters, i, i) = c IN SubSeq(LowerLetters, i, i)
    ELSE c
UpperChar(c) ==
    IF \E i \in 1..26 : SubSeq(LowerLetters, i, i) = c
    THEN LET i == CHOOSE i \in 1..26 : SubSeq(LowerLetters, i, i) = c IN SubSeq(UpperLetters, i, i)
    ELSE c
RECURSIVE Lower(_)
Lower(s) == IF s = "" THEN "" ELSE LowerChar(SubSeq(s, 1, 1)) \o Lower(Tail(s))
RECURSIVE Upper(_)
Upper(s) == IF s = "" THEN "" ELSE UpperChar(SubSeq(s, 1, 1)) \o Upper(Tail(s))

-----------------------------------------------------------------------------
(* to_fhir_datetime, in both scripts                                        *)
(*                                                                          *)
(* datetime.strptime is modelled for texts whose fields are zero-padded to  *)
(* the width the directive prints (%d %m %H %M %S two digits, %Y four): a   *)
(* format matches when the text has the format's shape and the fields name  *)
(* a real date and time.                                                    *)

\* where a format keeps its fields: shape of the text, and the first
\* position of each field (0: the format has no such field)
Layout(fmt) ==
    CASE fmt = "%d.%m.%Y %H:%M" ->
           [shape |-> "99.99.9999 99:99", D |-> 1, M |-> 4, Y |-> 7, h |-> 12, mi |-> 15, sec |-> 0]
      [] fmt = "%d/%m/%Y %H:%M" ->
           [shape |-> "99/99/9999 99:99", D |-> 1, M |-> 4, Y |-> 7, h |-> 12, mi |-> 15, sec |-> 0]
      [] fmt = "%Y-%m-%d" ->
           [shape |-> "9999-99-99", Y |-> 1, M |-> 6, D |-> 9, h |-> 0, mi |-> 0, sec |-> 0]
      [] fmt = "%Y-%m-%d %H:%M" ->
           [shape |-> "9999-99-99 99:99", Y |-> 1, M |-> 6, D |-> 9, h |-> 12, mi |-> 15, sec |-> 0]
      [] fmt \in {"%Y-%m-%d %H:%M:%S", "%Y-%m-%d %H:%M:%S%z"} ->
           [shape |-> "9999-99-99 99:99:99", Y |-> 1, M |-> 6, D |-> 9, h |-> 12, mi |-> 15, sec |-> 18]
      [] fmt = "%Y-%m-%dT%H:%M" ->
           [shape |-> "9999-99-99T99:99", Y |-> 1, M |-> 6, D |-> 9, h |-> 12, mi |-> 15, sec |-> 0]
      [] fmt \in {"%Y-%m-%dT%H:%M:%S", "%Y-%m-%dT%H:%M:%S%z"} ->
           [shape |-> "9999-99-99T99:99:99", Y |-> 1, M |-> 6, D |-> 9, h |-> 12, mi |-> 15, sec |-> 18]

HasZone(fmt) == EndsWith(fmt, "%z")

LeapYear(y) == (y % 4 = 0 /\ y % 100 # 0) \/ y % 400 = 0
DaysIn(y, m) ==
    IF m = 2 THEN (IF LeapYear(y) THEN 29 ELSE 28)
    ELSE IF m \in {4, 6, 9, 11} THEN 30 ELSE 31

\* the texts %z accepts, and the offset isoformat() prints for them
ZoneOffset(z) ==
    CASE z = "Z" -> "+00:00"
      [] Shape(z) \in {"+99:99", "-99:99"} -> z
      [] Shape(z) \in {"+9999", "-9999"} -> SubSeq(z, 1, 3) \o ":" \o SubSeq(z, 4, 5)
      [] OTHER -> ""
ZoneOk(z) ==
    /\ ZoneOffset(z) # ""
    /\ z = "Z" \/ (Num(SubSeq(ZoneOffset(z), 2, 3)) <= 23 /\ Num(SubSeq(ZoneOffset(z), 5, 6)) <= 59)

\* the date and time part of the text under a format, and its zone part
StampPart(s, fmt) == IF HasZone(fmt) THEN StrUpTo(s, Len(Layout(fmt).shape)) ELSE s
ZonePart(s, fmt) == IF HasZone(fmt) THEN StrFrom(s, Len(Layout(fmt).shape)) ELSE ""

Field(s, pos, width) == IF pos = 0 THEN SubSeq("0000", 1, width) ELSE SubSeq(s, pos, pos + width - 1)

\* datetime.strptime(s, fmt) returns (TRUE) or raises ValueError (FALSE)
StrptimeOk(s, fmt) ==
    LET l == Layout(fmt)
        t == StampPart(s, fmt) IN
    /\ Shape(t) = l.shape
    /\ Num(Field(t, l.Y, 4)) >= 1
    /\ Num(Field(t, l.M, 2)) \in 1..12
    /\ Num(Field(t, l.D, 2)) \in 1..DaysIn(Num(Field(t, l.Y, 4)), Num(Field(t, l.M, 2)))
    /\ Num(Field(t, l.h, 2)) <= 23
    /\ Num(Field(t, l.mi, 2)) <= 59
    /\ Num(Field(t, l.sec, 2)) <= 59
    /\ HasZone(fmt) => ZoneOk(ZonePart(s, fmt))

\* the fields of datetime.strptime(s, fmt), as the zero-padded texts strftime prints
Strptime(s, fmt) ==
    LET l == Layout(fmt)
        t == StampPart(s, fmt) IN
    [Y |-> Field(t, l.Y, 4), M |-> Field(t, l.M, 2), D |-> Field(t, l.D, 2),
     h |-> Field(t, l.h, 2), mi |-> Field(t, l.mi, 2), sec |-> Field(t, l.sec, 2),
     z |-> ZoneOffset(ZonePart(s, fmt))]

\* the clock: instant c is c seconds after the start of the modelled minute
ClockText(c) == "2026-11-02T08:00:0" \o ToString(c)
\* datetime.now().astimezone().isoformat(timespec="seconds"), on a machine in UTC
NowLocal(c) == ClockText(c) \o "+00:00"
\* datetime.now(timezone.utc).strftime("%Y-%m-%dT%H:%M:%SZ")
NowUtc(c) == ClockText(c) \o "Z"

\* qr_bundle_maker.to_fhir_datetime
QrFormats ==
    << "%Y-%m-%d", "%Y-%m-%d %H:%M", "%Y-%m-%d %H:%M:%S", "%Y-%m-%dT%H:%M",
       "%Y-%m-%dT%H:%M:%S", "%Y-%m-%dT%H:%M:%S%z", "%Y-%m-%d %H:%M:%S%z" >>

\* dt.isoformat() of an aware datetime without microseconds
IsoFormat(p, offset) ==
    p.Y \o "-" \o p.M \o "-" \o p.D \o "T" \o p.h \o ":" \o p.mi \o ":" \o p.sec \o offset

ToFhirDatetimeQr(dt_str, c) ==
    LET s == dt_str.s
        hits == {i \in DOMAIN QrFormats : StrptimeOk(s, QrFormats[i])} IN
    IF Truthy(dt_str) /\ hits # {}
    THEN LET f == QrFormats[CHOOSE i \in hits : \A j \in hits : i <= j]
             p == Strptime(s, f) IN
         IsoFormat(p, IF HasZone(f) THEN p.z ELSE "+00:00")
    ELSE NowLocal(c)

\* make_qr_bundles.to_fhir_datetime (tz_offset is always "+02:00")
ManualFormats == << "%d.%m.%Y %H:%M", "%Y-%m-%d", "%d/%m/%Y %H:%M" >>
TzOffset == "+02:00"

LooksZoned(s) ==
    /\ s # "" /\ Contains(s, "T")
    /\ EndsWith(s, "Z") \/ Contains(s, "+") \/ Contains(StrFrom(s, 10), "-")

ToFhirDatetimeManual(raw, c) ==
    LET s == Strip(IF Truthy(raw) THEN raw.s ELSE "")
        hits == {i \in DOMAIN ManualFormats : StrptimeOk(s, ManualFormats[i])} IN
    IF LooksZoned(s) THEN s
    ELSE IF hits # {}
    THEN LET f == ManualFormats[CHOOSE i \in hits : \A j \in hits : i <= j]
             p == Strptime(s, f) IN
         IF f = "%Y-%m-%d" THEN p.Y \o "-" \o p.M \o "-" \o p.D
         ELSE p.Y \o "-" \o p.M \o "-" \o p.D \o "T" \o p.h \o ":" \o p.mi \o ":00" \o TzOffset
    ELSE NowUtc(c)

\* authored texts a header table may carry (None: the column is absent)
DateTexts ==
    { "24.07.2012 08:24", "2012-07-24", "24/07/2012 08:24",
      "2012-07-24T08:24:00+02:00", "2012-07-24T08:24:00Z", "2012-07-24T08:24:00-05:00",
      "2012-07-24 08:24", "2012-07-24 08:24:30", "2012-07-24T08:24", "2012-07-24T08:24:30",
      "2012-07-24 08:24:30+0200", "31.02.2012 08:24", "29.02.2012 23:59", "2012-13-01",
      " 2012-07-24 ", "", "nan", "yesterday" }
DateArgs == {JNull} \cup {JStr(t) : t \in DateTexts}

NoCall == [prog |-> "none", arg |-> JNull, at |-> 0, out |-> ""]

NormalizeInit ==
    /\ nclock = 0
    /\ ncall = NoCall

NormalizeIdle ==
    /\ nclock = 0
    /\ ncall = NoCall

\* a second passes
NormalizeTick ==
    /\ nclock < MaxClock
    /\ nclock' = nclock + 1
    /\ UNCHANGED <<ncall, notNormalize>>

\* qr_bundle_maker.to_fhir_datetime(dt_str)
NormalizeQr ==
    /\ \E a \in DateArgs :
          ncall' = [prog |-> "qr_bundle_maker", arg |-> a, at |-> nclock,
                    out |-> ToFhirDatetimeQr(a, nclock)]
    /\ UNCHANGED <<nclock, notNormalize>>

\* make_qr_bundles.to_fhir_datetime(s)
NormalizeManual ==
    /\ \E a \in DateArgs :
          ncall' = [prog |-> "make_qr_bundles", arg |-> a, at |-> nclock,
                    out |-> ToFhirDatetimeManual(a, nclock)]
    /\ UNCHANGED <<nclock, notNormalize>>

NormalizeNext ==
    \/ NormalizeTick
    \/ NormalizeQr
    \/ NormalizeManual

-----------------------------------------------------------------------------
(* Claims about the temporal normalizer (specification SpecNormalize) *)

\* a full date-time text with an explicit zone marker (Z or a +hh:mm / -hh:mm offset)
ZonedDateTime(t) ==
    /\ StrptimeOk(StrUpTo(t, 19), "%Y-%m-%dT%H:%M:%S")
    /\ StrFrom(t, 19) = "Z" \/ Shape(StrFrom(t, 19)) \in {"+99:99", "-99:99"}

\* the formats each script tries, and the text it tries them on
FormatsOf(p) == IF p = "qr_bundle_maker" THEN QrFormats ELSE ManualFormats
TriedText(call) == IF call.prog = "qr_bundle_maker" THEN call.arg.s ELSE Strip(call.arg.s)
IsNow(call) == call.out \in {NowLocal(call.at), NowUtc(call.at)}

\* the policy, for one call of the normalizer
FollowsPolicy(call) ==
    LET t == call.arg.s IN
    /\ ZonedDateTime(t) => call.out = t
    /\ StrptimeOk(t, "%d.%m.%Y %H:%M") =>
          StrUpTo(call.out, 16) =
              SubSeq(t, 7, 10) \o "-" \o SubSeq(t, 4, 5) \o "-" \o SubSeq(t, 1, 2)
                 \o "T" \o SubSeq(t, 12, 16)
    /\ StrptimeOk(t, "%Y-%m-%d") => call.out = t
    /\ IsNow(call) =>
          \A i \in DOMAIN FormatsOf(call.prog) :
              ~StrptimeOk(TriedText(call), FormatsOf(call.prog)[i])

(* C17: every call of the normalizer returns a date-time text with an       *)
(* explicit zone marker unchanged, turns a day.month.year text with a time  *)
(* into a timestamp on that day and minute, turns a bare calendar date into *)
(* the date-only value, and returns the current instant only when none of   *)
(* its formats matches the text.                                            *)
C17_NormalizerFollowsPolicy == ncall.prog # "none" => FollowsPolicy(ncall)

\* the normalizer of make_qr_bundles does follow the policy
ManualNormalizerFollowsPolicy == ncall.prog = "make_qr_bundles" => FollowsPolicy(ncall)

\* the normalizer of qr_bundle_maker keeps an offset-zoned text and falls back
\* to the current instant only when none of its formats matches
QrNormalizerKeepsOffsets ==
    ncall.prog = "qr_bundle_maker" =>
        /\ (ZonedDateTime(ncall.arg.s) /\ ~EndsWith(ncall.arg.s, "Z")) => ncall.out = ncall.arg.s
        /\ IsNow(ncall) => \A i \in DOMAIN QrFormats : ~StrptimeOk(ncall.arg.s, QrFormats[i])

-----------------------------------------------------------------------------
(* The field resolvers: pick_ci (qr_bundle_maker) and get_first_present     *)
(* (make_qr_bundles), on a row read by csv.DictReader                       *)

\* header names as the CSV file spells them
RawHeaders == {"PatientID", "subject", " Patient ", "Date"}
\* cells: None is what DictReader gives for a cell the line does not have
Cells == {JNull, JStr(""), JStr("nan"), JStr(" NaN "), JStr(" P1 ")}

\* rows of up to n columns, as sequences of <<header, cell>>
RECURSIVE RowsOf(_)
RowsOf(n) ==
    IF n = 0 THEN {<< >>}
    ELSE LET shorter == RowsOf(n - 1) IN
         shorter \cup {Append(r, <<h, c>>) : r \in {x \in shorter : Len(x) = n - 1},
                                            h \in RawHeaders, c \in Cells}

\* normalize_headers: the key of a column is (k or "").strip().lower()
NormalizeHeader(k) == Lower(Strip(k))

\* normalize_headers(row): the columns under their normalized keys
NormalizeHeaders(row) == [i \in DOMAIN row |-> <<NormalizeHeader(row[i][1]), row[i][2]>>]

\* row_ci.get(name) (of two columns with one key the later wins)
RowGet(row, name) ==
    LET at == {i \in DOMAIN row : row[i][1] = name} IN
    IF at = {} THEN JAbsent ELSE row[CHOOSE i \in at : \A j \in at : j <= i][2]

HEADER_ALIASES ==
    [ patient |-> <<"patient", "patientid", "patient_id", "subject", "subjectid">>,
      encounter |-> <<"encounter", "encounterid", "encounter_id">>,
      author |-> <<"author", "authorid", "author_id", "practitioner", "practitionerid">>,
      source |-> <<"source", "sourceid", "source_id">>,
      authored |-> <<"authored", "authoredon", "date">>,
      qr_id |-> <<"qr_id", "questionnaireresponseid", "qrid">> ]

\* the column names make_qr_bundles.build_qr asks get_first_present for
ManualAliases ==
    [ patient |-> <<"patientid", "patient", "subject">>,
      encounter |-> <<"encounterid", "encounter">>,
      author |-> <<"practitionerid", "author", "practitioner">>,
      authored |-> <<"authored", "date">>,
      source |-> <<"src", "source">> ]

\* pick_ci(row_ci, keys): the first key in the row whose str(...).strip() is
\* not empty, else the default ""
PickCi(row, keys) ==
    LET hits == {i \in DOMAIN keys :
                    /\ RowGet(row, keys[i]).t # "absent"
                    /\ Strip(PyStr(RowGet(row, keys[i]))) # ""} IN
    IF hits = {} THEN ""
    ELSE Strip(PyStr(RowGet(row, keys[CHOOSE i \in hits : \A j \in hits : i <= j])))

\* get_first_present(row_ci, *names): None (JNull) when no name has a value
GetFirstPresent(row, names) ==
    LET hits == {i \in DOMAIN names :
                    /\ RowGet(row, names[i]).t \notin {"absent", "null"}
                    /\ Strip(PyStr(RowGet(row, names[i]))) # ""
                    /\ Lower(Strip(PyStr(RowGet(row, names[i])))) # "nan"} IN
    IF hits = {} THEN JNull
    ELSE JStr(Strip(PyStr(RowGet(row, names[CHOOSE i \in hits : \A j \in hits : i <= j]))))

NoResolve == [prog |-> "none", field |-> "", out |-> JNull]

\* read_header_csv / main: a row as read, and as normalized
ReadRow(r) == [raw |-> r, ci |-> NormalizeHeaders(r)]

ResolveInit ==
    /\ rrow \in {ReadRow(r) : r \in RowsOf(MaxColumns)}
    /\ rcall = NoResolve

ResolveIdle ==
    /\ rrow = ReadRow(<< >>)
    /\ rcall = NoResolve

\* pick_ci(row_ci, HEADER_ALIASES[field])
ResolvePickCi ==
    /\ rcall = NoResolve
    /\ \E f \in DOMAIN HEADER_ALIASES :
          rcall' = [prog |-> "qr_bundle_maker", field |-> f,
                    out |-> JStr(PickCi(rrow.ci, HEADER_ALIASES[f]))]
    /\ UNCHANGED <<rrow, notResolve>>

\* get_first_present(row_ci, ...) for a field of build_qr
ResolveGetFirstPresent ==
    /\ rcall = NoResolve
    /\ \E f \in DOMAIN ManualAliases :
          rcall' = [prog |-> "make_qr_bundles", field |-> f,
                    out |-> GetFirstPresent(rrow.ci, ManualAliases[f])]
    /\ UNCHANGED <<rrow, notResolve>>

ResolveNext ==
    \/ ResolvePickCi
    \/ ResolveGetFirstPresent

-----------------------------------------------------------------------------
(* Claims about the field resolvers (specification SpecResolve) *)

\* a cell holds a value: text that is not blank and not the placeholder nan
HoldsValue(cell) ==
    /\ cell.t = "str"
    /\ Strip(cell.s) # ""
    /\ Lower(Strip(cell.s)) # "nan"

\* the alias order the called resolver was given for the field
AliasesOf(call) ==
    IF call.prog = "qr_bundle_maker" THEN HEADER_ALIASES[call.field]
    ELSE ManualAliases[call.field]

\* the resolver returned empty: "" from pick_ci, None from get_first_present
ResolvedEmpty(call) == call.out \in {JStr(""), JNull}

\* what the claim asks of one call
ResolvesFirstValue(row, call) ==
    LET keys == AliasesOf(call)
        hits == {i \in DOMAIN keys : HoldsValue(RowGet(row.ci, keys[i]))} IN
    /\ hits = {} => ResolvedEmpty(call)
    /\ hits # {} =>
          call.out = JStr(Strip(RowGet(row.ci, keys[CHOOSE i \in hits : \A j \in hits : i <= j]).s))
    /\ \A h \in {"PatientID", "subject"} : \A c \in Cells :
          (row.raw = << <<h, c>> >> /\ HoldsValue(c) /\ call.field = "patient")
              => call.out = JStr(Strip(c.s))

(* C16: every call of a field resolver returns the value of the first       *)
(* alias, in the field's alias order, whose cell in the row is not blank    *)
(* and not the placeholder nan in any letter case, and returns empty when   *)
(* no alias has such a cell (a missing column included); a row whose only   *)
(* column is PatientID and a row whose only column is subject both resolve  *)
(* the identity field to that column's value.                               *)
C16_ResolvesFirstValue == rcall.prog # "none" => ResolvesFirstValue(rrow, rcall)

\* get_first_present does so
GetFirstPresentResolvesFirstValue ==
    rcall.prog = "make_qr_bundles" => ResolvesFirstValue(rrow, rcall)

\* pick_ci does so on rows without nan cells and without cells the line lacks
PickCiOnPlainRows ==
    (/\ rcall.prog = "qr_bundle_maker"
     /\ \A i \in DOMAIN rrow.raw : rrow.raw[i][2] \notin {JNull, JStr("nan"), JStr(" NaN ")})
        => ResolvesFirstValue(rrow, rcall)

\* the identity field has been resolved from a PatientID column alone
PatientIdResolved ==
    /\ rcall.field = "patient" /\ rcall.out = JStr("P1")
    /\ rrow.raw = << <<"PatientID", JStr(" P1 ")>> >>

-----------------------------------------------------------------------------
(* build_qr, in both scripts, and make_entry                                *)
(*                                                                          *)
(* A record is kept with one field per key build_qr can set; JAbsent marks  *)
(* a key the record does not have, JNull a key present with None. The       *)
(* reference fields hold the text of their "reference". The narrative div   *)
(* is kept as its heading and its lines (the div joins the lines with       *)
(* "<br/>", make_qr_bundles wraps each in <li>).                            *)

\* rel_ref of qr_bundle_maker
RelRefQr(resource_type, identifier) ==
    IF identifier = "" THEN ""
    ELSE LET s == Strip(identifier) IN
         IF Contains(s, "/") \/ StartsWith(s, "urn:uuid:") \/ StartsWith(s, "http") THEN s
         ELSE resource_type \o "/" \o s

\* rel_ref of make_qr_bundles (only called with a ref that is not empty)
RelRefManual(resource_type, ref) ==
    IF Contains(ref, "/") THEN ref ELSE resource_type \o "/" \o ref

\* str(uuid.uuid4()): the n-th identifier minted
Uuid(n) == "uuid-" \o ToString(n)

\* `a or b` on texts
OrElse(a, b) == IF a # "" THEN a ELSE b

\* an answer without its linkId: {k: v for k, v in a.items() if k != "linkId"}
WithoutLinkId(a) == [kind |-> a.kind, valueString |-> a.valueString, valueCoding |-> a.valueCoding]

\* narrative_line(a)
NarrativeLine(a) ==
    IF a.kind = "valueCoding"
    THEN a.linkId \o ": " \o OrElse(a.valueCoding.display, a.valueCoding.code)
    ELSE a.linkId \o ": " \o StrUpTo(a.valueString, 80)

\* by_link[lid]
ByLink(answers, lid) ==
    LET mine == SelectSeq(answers, LAMBDA a : a.linkId = lid) IN
    [j \in DOMAIN mine |-> WithoutLinkId(mine[j])]

\* the loop over questionnaire.get("item", []): `if lid in by_link`
C12m_EveryItemListed(it, answers) == it.has
InByLink(it, answers) == it.has /\ \E j \in DOMAIN answers : answers[j].linkId = it.linkId

GroupedItems(questionnaire, answers) ==
    LET listed == SelectSeq(questionnaire, LAMBDA it : InByLink(it, answers)) IN
    [i \in DOMAIN listed |->
        [linkId |-> listed[i].linkId, answer |-> ByLink(answers, listed[i].linkId)]]

\* qr = {k: v for k, v in qr.items() if v is not None}
C14m_NoneKept(v) == v
DropNone(v) == IF v = JNull THEN JAbsent ELSE v

\* `{"reference": rel_ref(...)} if x else None`
RefOrNone(resource_type, x) == IF x # "" THEN JStr(RelRefQr(resource_type, x)) ELSE JNull

\* qr_id = pick_ci(row_ci, HEADER_ALIASES["qr_id"]) or str(uuid.uuid4())
C15m_AlwaysMinted(own_id, n) == Uuid(n + 1)
RecordId(own_id, n) == OrElse(own_id, Uuid(n + 1))

\* qr_bundle_maker.build_qr(mode, row_ci, questionnaire, questionnaire_url, answers)
\* at instant c, with n identifiers minted before
BuildQr(mode, row_ci, questionnaire, defurl, questionnaire_url, answers, c, n) ==
    LET patient_id == PickCi(row_ci, HEADER_ALIASES.patient)
        encounter_id == PickCi(row_ci, HEADER_ALIASES.encounter)
        author_id == PickCi(row_ci, HEADER_ALIASES.author)
        source_id == OrElse(PickCi(row_ci, HEADER_ALIASES.source), patient_id)
        authored_str == PickCi(row_ci, HEADER_ALIASES.authored)
        own_id == PickCi(row_ci, HEADER_ALIASES.qr_id)
    IN [ id |-> DropNone(JStr(RecordId(own_id, n))),
         questionnaire |-> DropNone(IF Truthy(questionnaire_url) THEN questionnaire_url
                                    ELSE IF defurl = JAbsent THEN JNull ELSE defurl),
         subject |-> DropNone(RefOrNone("Patient", patient_id)),
         encounter |-> DropNone(RefOrNone("Encounter", encounter_id)),
         author |-> DropNone(RefOrNone("Practitioner", author_id)),
         source |-> DropNone(RefOrNone("Patient", source_id)),
         authored |-> DropNone(JStr(ToFhirDatetimeQr(JStr(authored_str), c))),
         text |-> [heading |-> Upper(mode) \o " QR",
                   lines |-> [j \in DOMAIN answers |-> NarrativeLine(answers[j])]],
         item |-> GroupedItems(questionnaire, answers) ]

\* make_qr_bundles.build_qr: the answer columns of question i
Pad2(i) == IF i < 10 THEN "0" \o ToString(i) ELSE ToString(i)
Candidates(i) ==
    << "ans_q" \o ToString(i), "ans_q" \o Pad2(i), "answer_q" \o ToString(i), "q" \o ToString(i) >>

CodeMap(val) ==
    CASE val = "1" -> "disagree" [] val = "2" -> "neutral" [] val = "3" -> "agree" [] OTHER -> val
DisplayMap(code) ==
    CASE code = "disagree" -> "Mostly disagree"
      [] code = "neutral" -> "Not sure"
      [] code = "agree" -> "Mostly agree"
      [] OTHER -> code

\* the questions 1..n_items the row answers, in order
AnsweredQuestions(row_ci, n_items) ==
    SelectSeq([i \in 1..Max(n_items, 0) |-> i],
              LAMBDA i : GetFirstPresent(row_ci, Candidates(i)) # JNull)

RefIfPresent(resource_type, x) ==
    IF Truthy(x) THEN JStr(RelRefManual(resource_type, x.s)) ELSE JAbsent

\* make_qr_bundles.build_qr(row_ci, questionnaire, likert_system, n_items): the resource
BuildQrManual(row_ci, questionnaire, likert_system, n_items, c) ==
    LET patient_ref == GetFirstPresent(row_ci, ManualAliases.patient)
        encounter_ref == GetFirstPresent(row_ci, ManualAliases.encounter)
        practitioner_id == GetFirstPresent(row_ci, ManualAliases.author)
        raw_authored == GetFirstPresent(row_ci, ManualAliases.authored)
        own_src == GetFirstPresent(row_ci, ManualAliases.source)
        src_ref == IF Truthy(own_src) THEN own_src ELSE patient_ref
        asked == AnsweredQuestions(row_ci, n_items)
        display(i) == DisplayMap(CodeMap(Strip(GetFirstPresent(row_ci, Candidates(i)).s)))
    IN [ id |-> JAbsent,
         questionnaire |-> JStr(questionnaire),
         subject |-> RefIfPresent("Patient", patient_ref),
         encounter |-> RefIfPresent("Encounter", encounter_ref),
         author |-> RefIfPresent("Practitioner", practitioner_id),
         source |-> RefIfPresent("Patient", src_ref),
         authored |-> JStr(ToFhirDatetimeManual(raw_authored, c)),
         text |-> [heading |-> "QuestionnaireResponse for patient "
                                  \o (IF Truthy(patient_ref) THEN patient_ref.s ELSE "unknown"),
                   lines |-> [k \in DOMAIN asked |-> "Q" \o ToString(asked[k]) \o ": " \o display(asked[k])]],
         item |-> [k \in DOMAIN asked |->
                     [linkId |-> "nreq-q" \o ToString(asked[k]),
                      answer |-> << WithoutLinkId(
                          CodingAnswer("", likert_system,
                                       CodeMap(Strip(GetFirstPresent(row_ci, Candidates(asked[k])).s)),
                                       display(asked[k]))) >>]] ]

-----------------------------------------------------------------------------
(* Assembling records: main's call of build_qr for a row, made twice on the *)
(* same row and AnswerSet, and make_entry wrapping a record                 *)

\* header rows (as the file spells them)
RowEmpty == << >>
RowPatientOnly == << <<"PatientID", JStr("P1")>> >>
RowFull ==
    << <<"PatientID", JStr("P1")>>, <<"Encounter", JStr("E1")>>, <<"Author", JStr("Practitioner/A1")>>,
       <<"Source", JStr("S1")>>, <<"Date", JStr("24.07.2012 08:24")>>, <<"QR_ID", JStr("QR1")>>,
       <<"ans_q1", JStr("1")>>, <<"Q2", JStr("agree")>>, <<"answer_q3", JStr("")>>, <<"ans_q04", JStr(" 2 ")>> >>
RowSubjectDated ==
    << <<"subject", JStr("Patient/P2")>>, <<"authored", JStr("2012-07-24")>>, <<"qrid", JStr("QR2")>>,
       <<"q1", JStr("nan")>>, <<"q3", JStr("5")>> >>
RowBlanks ==
    << <<"PatientID", JStr(" ")>>, <<"encounter", JNull>>, <<"Date", JStr("")>>, <<"source", JStr("S2")>> >>
RowZoned ==
    << <<"patient", JStr("P3")>>, <<"Date", JStr("2012-07-24T08:24:00+02:00")>>, <<"ans_q2", JStr("3")>> >>
RowIdUndated == << <<"patient", JStr("P4")>>, <<"qr_id", JStr("QR4")>> >>
HeaderRows == {RowEmpty, RowPatientOnly, RowFull, RowSubjectDated, RowBlanks, RowZoned, RowIdUndated}

\* a response of the service that also carries a linkId nobody asked for
ResponseWithExtra ==
    [shape |-> "ok",
     answers |-> Append(AskedResponse.answers, Entry(JStr("ppnq-q10"), JStr("more"), NoCoding))]

\* what main hands to build_qr: mode, definition and the AnswerSet a strategy made
AssembledInputs ==
    {[mode |-> "nreq", quest |-> q, answers |-> GenNreqAnswers(q, RngSeeded(n), <<1, 1, 1>>).answers] :
        q \in Questionnaires("nreq"), n \in 0..1}
    \cup
    {[mode |-> "ppnq", quest |-> q, answers |-> GenPpnqAnswersDry(q, RngSeeded(n)).answers] :
        q \in Questionnaires("ppnq"), n \in 0..1}
    \cup
    {[mode |-> "ppnq", quest |-> BUILTIN_PPNQ, answers |-> ValidatePpnqAnswers(o).out] :
        o \in {AskedResponse, ResponseWithExtra}}

\* the definition's url (a file may lack one) and --questionnaire-url
DefinitionUrls == {JAbsent, JStr("http://example.org/fhir/Questionnaire/Q")}
UrlOptions == {JNull, JStr("http://example.org/fhir/Questionnaire/Other")}

\* make_qr_bundles: --questionnaire, --likert-system (defaults), --n-items
DefaultQuestionnaire == "http://example.org/fhir/Questionnaire/NREQ"
NItemsChoices == (0 - 1)..MaxNItems

AssembleInit ==
    /\ aprog \in {"qr_bundle_maker", "make_qr_bundles"}
    /\ arow \in {ReadRow(r) : r \in HeaderRows}
    /\ ain \in AssembledInputs
    /\ adefurl \in DefinitionUrls
    /\ aurlopt \in UrlOptions
    /\ an_items \in NItemsChoices
    /\ aprog = "qr_bundle_maker" => an_items = 0
    /\ aprog = "make_qr_bundles" =>
          /\ ain = [mode |-> "nreq", quest |-> ExternalEmpty, answers |-> << >>]
          /\ adefurl = JAbsent /\ aurlopt = JNull
    /\ aclock = 0
    /\ auuid = 0
    /\ arecs = << >>

AssembleIdle ==
    /\ aprog = "none"
    /\ arow = ReadRow(<< >>)
    /\ ain = [mode |-> "nreq", quest |-> ExternalEmpty, answers |-> << >>]
    /\ adefurl = JAbsent /\ aurlopt = JNull
    /\ an_items = 0
    /\ aclock = 0
    /\ auuid = 0
    /\ arecs = << >>

\* a second passes while rows are still to be assembled
AssembleTick ==
    /\ aprog # "none" /\ aclock < MaxClock
    /\ Len(arecs) < MaxAssemblies
    /\ aclock' = aclock + 1
    /\ UNCHANGED <<aprog, arow, ain, adefurl, aurlopt, an_items, auuid, arecs, notAssemble>>

\* qr = build_qr(mode, row_ci, questionnaire, questionnaire_url, answers)
AssembleQr ==
    /\ aprog = "qr_bundle_maker" /\ Len(arecs) < MaxAssemblies
    /\ LET qr == BuildQr(ain.mode, arow.ci, ain.quest, adefurl, aurlopt,
                         ain.answers, aclock, auuid) IN
         /\ arecs' = Append(arecs, [fullUrl |-> JAbsent, resource |-> qr])
         \* uuid4 was called when the id is the minted one
         /\ auuid' = IF qr.id = JStr(Uuid(auuid + 1)) THEN auuid + 1 ELSE auuid
    /\ UNCHANGED <<aprog, arow, ain, adefurl, aurlopt, an_items, aclock, notAssemble>>

\* write_bundles, after main's loop: make_entry(r) for the next record in order
MakeEntry ==
    /\ aprog = "qr_bundle_maker"
    /\ Len(arecs) = MaxAssemblies
    /\ \E k \in DOMAIN arecs :
          /\ arecs[k].fullUrl = JAbsent
          /\ \A j \in 1..(k - 1) : arecs[j].fullUrl # JAbsent
          /\ arecs' = [arecs EXCEPT ![k].fullUrl = JStr("urn:uuid:" \o Uuid(auuid + 1))]
    /\ auuid' = auuid + 1
    /\ UNCHANGED <<aprog, arow, ain, adefurl, aurlopt, an_items, aclock, notAssemble>>

\* entry = build_qr(row_ci, args.questionnaire, args.likert_system, args.n_items)
AssembleManual ==
    /\ aprog = "make_qr_bundles" /\ Len(arecs) < MaxAssemblies
    /\ arecs' = Append(arecs,
                   [fullUrl |-> JStr("urn:uuid:" \o Uuid(auuid + 1)),
                    resource |-> BuildQrManual(arow.ci, DefaultQuestionnaire, NREQ_LIKERT_SYSTEM,
                                               an_items, aclock)])
    /\ auuid' = auuid + 1
    /\ UNCHANGED <<aprog, arow, ain, adefurl, aurlopt, an_items, aclock, notAssemble>>

AssembleNext ==
    \/ AssembleTick
    \/ AssembleQr
    \/ MakeEntry
    \/ AssembleManual

-----------------------------------------------------------------------------
(* Claims about assembled records (specification SpecAssemble) *)

Records == {arecs[k].resource : k \in DOMAIN arecs}
ItemLinkIds(rec) == [i \in DOMAIN rec.item |-> rec.item[i].linkId]

\* qr_bundle_maker: the definition items with at least one answer in the AnswerSet
ItemsWithAnswer == SelectSeq(ain.quest, LAMBDA it : it.has /\ AnswersFor(ain.answers, it.linkId) # {})

\* make_qr_bundles: question i of the definition has an answer in the row
RowAnswers(i) == \E k \in DOMAIN Candidates(i) : HoldsValue(RowGet(arow.ci, Candidates(i)[k]))
QuestionsWithAnswer == SelectSeq([i \in 1..Max(an_items, 0) |-> i], RowAnswers)

(* C12: in every assembled record the item list names, in the definition's  *)
(* item order, exactly the definition items that have at least one answer   *)
(* (an item without an answer is left out and assembling goes on), and each *)
(* listed item carries its answers and is never empty.                      *)
C12_ItemsFollowDefinition ==
    \A rec \in Records :
        /\ aprog = "qr_bundle_maker" =>
              /\ ItemLinkIds(rec) = [i \in DOMAIN ItemsWithAnswer |-> ItemsWithAnswer[i].linkId]
              /\ \A i \in DOMAIN rec.item :
                    Len(rec.item[i].answer) = Cardinality(AnswersFor(ain.answers, rec.item[i].linkId))
        /\ aprog = "make_qr_bundles" =>
              ItemLinkIds(rec) =
                  [i \in DOMAIN QuestionsWithAnswer |-> "nreq-q" \o ToString(QuestionsWithAnswer[i])]
        /\ \A i \in DOMAIN rec.item : rec.item[i].answer # << >>

\* a record was assembled from a definition of which one item has an answer
\* and another has none
C12_Witness ==
    /\ aprog = "qr_bundle_maker" /\ arecs # << >>
    /\ \E i, j \in DOMAIN ain.quest :
          /\ ain.quest[i].has /\ AnswersFor(ain.answers, ain.quest[i].linkId) # {}
          /\ ain.quest[j].has /\ AnswersFor(ain.answers, ain.quest[j].linkId) = {}
    /\ arecs[1].resource.item # << >>

\* the same in make_qr_bundles: a row that answers some of the questions only
ManualPartlyAnswered ==
    /\ aprog = "make_qr_bundles" /\ arecs # << >>
    /\ Len(arecs[1].resource.item) \in 1..(an_items - 1)

\* the label a narrative line opens with, for an item of the record
LineLabel(linkId) ==
    IF aprog = "make_qr_bundles" THEN "Q" \o StrFrom(linkId, 6) \o ": " ELSE linkId \o ": "

\* what a line must show for an item: the display of its coded answer, or at
\* most 80 characters of its free text
ShowsAnswer(line, it) ==
    /\ StartsWith(line, LineLabel(it.linkId))
    /\ \E k \in DOMAIN it.answer :
          IF it.answer[k].kind = "valueCoding"
          THEN /\ it.answer[k].valueCoding.display # ""
               /\ line = LineLabel(it.linkId) \o it.answer[k].valueCoding.display
          ELSE /\ Len(line) - Len(LineLabel(it.linkId)) <= 80
               /\ line = LineLabel(it.linkId) \o StrUpTo(it.answer[k].valueString, 80)

NarrativeMatchesItems(rec) ==
    /\ Len(rec.text.lines) = Len(rec.item)
    /\ \A i \in DOMAIN rec.item : \E j \in DOMAIN rec.text.lines : ShowsAnswer(rec.text.lines[j], rec.item[i])
    /\ \A j \in DOMAIN rec.text.lines : \E i \in DOMAIN rec.item : ShowsAnswer(rec.text.lines[j], rec.item[i])

(* C13: the narrative of every assembled record has as many lines as the    *)
(* record has items, every item has a line and every line belongs to an     *)
(* item of the item list; the line shows the display label of a coded       *)
(* answer, or the first 80 characters at most of a free-text answer.        *)
C13_NarrativeLinePerItem == \A rec \in Records : NarrativeMatchesItems(rec)

\* it is so whenever every linkId of the AnswerSet is in the definition
NarrativeMatchesWithinDefinition ==
    (\A j \in DOMAIN ain.answers : ain.answers[j].linkId \in DefinitionLinkIds(ain.quest))
        => C13_NarrativeLinePerItem

\* a free-text answer longer than 80 characters has been rendered
LongTextRendered ==
    \E rec \in Records : \E i \in DOMAIN rec.item :
        /\ rec.item[i].answer[1].kind = "valueString"
        /\ Len(rec.item[i].answer[1].valueString) > 80

\* the resolved value of a cross-reference field, "" when it is empty
Resolved(f) ==
    IF aprog = "qr_bundle_maker" THEN PickCi(arow.ci, HEADER_ALIASES[f])
    ELSE LET v == GetFirstPresent(arow.ci, ManualAliases[f]) IN IF v = JNull THEN "" ELSE v.s
ResolvedSource == IF Resolved("source") # "" THEN Resolved("source") ELSE Resolved("patient")

RefFields == {"subject", "encounter", "author", "source"}
ResolvedFor(k) ==
    CASE k = "subject" -> Resolved("patient")
      [] k = "encounter" -> Resolved("encounter")
      [] k = "author" -> Resolved("author")
      [] k = "source" -> ResolvedSource

TopFields == {"id", "questionnaire", "subject", "encounter", "author", "source", "authored"}

(* C14: every assembled record has a subject, encounter, author or source   *)
(* reference exactly when the resolved value of that field is not empty,    *)
(* source taking the subject's value when the row has no source of its own; *)
(* a reference that is present is not empty, and no field of the record is  *)
(* present with a null value.                                               *)
C14_ReferencesWhenResolved ==
    \A rec \in Records :
        /\ \A k \in RefFields :
              /\ rec[k] # JAbsent <=> ResolvedFor(k) # ""
              /\ rec[k] # JAbsent => (rec[k].t = "str" /\ rec[k].s # "")
        /\ \A k \in TopFields : rec[k] # JNull

\* a record whose source comes from the subject and that leaves a field out
C14_Witness ==
    /\ arecs # << >>
    /\ Resolved("source") = "" /\ Resolved("patient") # ""
    /\ arecs[1].resource.source = arecs[1].resource.subject
    /\ arecs[1].resource.source # JAbsent
    /\ arecs[1].resource.encounter = JAbsent

(* C15 as stated: any two records assembled from the same row and the same  *)
(* AnswerSet are identical in every field (id, references, authored,        *)
(* items, narrative).                                                       *)
C15_AssemblyIdempotent ==
    \A i, j \in DOMAIN arecs : arecs[i].resource = arecs[j].resource

\* the row supplies a record id; its authored text is accepted by the
\* normalizer of the script that runs
RowHasOwnId == aprog = "qr_bundle_maker" /\ PickCi(arow.ci, HEADER_ALIASES.qr_id) # ""
AuthoredParses ==
    IF aprog = "qr_bundle_maker"
    THEN \E k \in DOMAIN QrFormats :
            StrptimeOk(PickCi(arow.ci, HEADER_ALIASES.authored), QrFormats[k])
    ELSE LET v == GetFirstPresent(arow.ci, ManualAliases.authored)
             s == IF v = JNull THEN "" ELSE v.s IN
         LooksZoned(s) \/ \E k \in DOMAIN ManualFormats : StrptimeOk(s, ManualFormats[k])

\* an authored value that is the clock's reading
ClockReadings == {JStr(NowLocal(c)) : c \in 0..MaxClock} \cup {JStr(NowUtc(c)) : c \in 0..MaxClock}

(* C15 as the code has it: any two records assembled from the same row and  *)
(* the same AnswerSet agree in questionnaire, references, items and         *)
(* narrative. The record id is the same when the row supplies one; when it  *)
(* does not, qr_bundle_maker mints a new id for each assembly and the ids   *)
(* differ (make_qr_bundles sets no id). The authored value is the same when *)
(* the row's authored text is accepted by the normalizer; otherwise it is   *)
(* the clock's reading at each assembly. The fullUrl of two entries always  *)
(* differs.                                                                 *)
C15_IdempotentUpToMintedValues ==
    \A i, j \in DOMAIN arecs :
        LET a == arecs[i].resource
            b == arecs[j].resource IN
        /\ \A k \in {"questionnaire", "subject", "encounter", "author", "source"} : a[k] = b[k]
        /\ a.item = b.item
        /\ a.text = b.text
        /\ (RowHasOwnId \/ aprog = "make_qr_bundles") => a.id = b.id
        /\ (aprog = "qr_bundle_maker" /\ ~RowHasOwnId /\ i # j) => a.id # b.id
        /\ AuthoredParses => a.authored = b.authored
        /\ ~AuthoredParses => a.authored \in ClockReadings
        /\ (i # j /\ arecs[i].fullUrl # JAbsent) => arecs[i].fullUrl # arecs[j].fullUrl

\* two wrapped records of a row with its own id and a dated authored text,
\* the second assembled after the clock moved: equal but for the fullUrl
C15_Witness ==
    /\ aprog = "qr_bundle_maker" /\ RowHasOwnId /\ AuthoredParses
    /\ aclock > 0
    /\ Len(arecs) >= 2
    /\ arecs[1].resource = arecs[2].resource
    /\ arecs[1].fullUrl # JAbsent /\ arecs[2].fullUrl # JAbsent
    /\ arecs[1].fullUrl # arecs[2].fullUrl

\* two records of one row that differ in id and in authored
MintedValuesDiffer ==
    /\ Len(arecs) >= 2
    /\ arecs[1].resource.id # arecs[2].resource.id
    /\ arecs[1].resource.authored # arecs[2].resource.authored

-----------------------------------------------------------------------------
(* File names and exit status of the batch writers                          *)

\* The characters of a file name, in code point order
CodePoints == "-.0123456789ABCDEFGHIJKLMNOPQRSTUVWXYZ_abcdefghijklmnopqrstuvwxyz"
CodePoint(c) == CHOOSE r \in 1..Len(CodePoints) : SubSeq(CodePoints, r, r) = c

\* a < b as strings (code point by code point, a proper prefix first), from position i
RECURSIVE StrLessFrom(_, _, _)
StrLessFrom(a, b, i) ==
    IF i > Len(b) THEN FALSE
    ELSE IF i > Len(a) THEN TRUE
    ELSE IF SubSeq(a, i, i) = SubSeq(b, i, i) THEN StrLessFrom(a, b, i + 1)
    ELSE CodePoint(SubSeq(a, i, i)) < CodePoint(SubSeq(b, i, i))
StrLess(a, b) == StrLessFrom(a, b, 1)

\* The names of the files written so far, in emission order
Paths == [k \in 1..Len(written) |-> written[k].path]

\* the k-th file carries index k, written with at least three digits
IndexedFromOne ==
    \A k \in 1..Len(written) :
        /\ written[k].idx = k
        /\ \E pfx \in {"nreq", "ppnq"} : written[k].path = pfx \o "_batch_bundle_" \o Pad3(k) \o ".json"

\* sorting the names gives the emission order
NamesInEmissionOrder ==
    \A k \in 1..(Len(written) - 1) : StrLess(Paths[k], Paths[k + 1])

\* the run has ended
Ended == bpc \in {"done", "exit2"}

(* C18: batch files carry a zero-padded index that starts at 1 and grows by *)
(* one with each emitted batch (the k-th batch is written under index k,    *)
(* none skipped or reused), and the order of the file names is the order in *)
(* which the batches were emitted.                                          *)
C18_IndexedNamesInEmissionOrder ==
    Ended => (IndexedFromOne /\ NamesInEmissionOrder)

\* What does hold: the index counts the batches from 1 in every run, and the
\* names sort in emission order while a run emits at most 999 batches
BatchIndexCounts == IndexedFromOne
NamesOrderedUpTo999 == (Ended /\ Len(written) <= 999) => NamesInEmissionOrder
ThousandthBatchWritten == Ended /\ Len(written) >= 1000

(* C19: a run whose header table has no data rows is fatal: it writes no    *)
(* batch file and ends with a non-zero exit status.                         *)
C19_EmptyTableIsFatal ==
    (Ended /\ resources = <<>>) => (written = <<>> /\ exit_code # 0)

\* What does hold: no file is written for an empty table, and qr_bundle_maker
\* ends with status 2
EmptyTableWritesNothing == resources = <<>> => written = <<>>
QrBundleMakerEmptyIsFatal ==
    (Ended /\ resources = <<>> /\ prog = "qr_bundle_maker") => exit_code = 2
ManualEmptyEndsWithZero ==
    Ended /\ resources = <<>> /\ prog = "make_qr_bundles" /\ exit_code = 0

-----------------------------------------------------------------------------
(* questionnaire_bundle_maker: the transaction bundle of CodeSystems,       *)
(* ValueSets and Questionnaires                                             *)

\* ORDER.get(rt, 99)
ORDER(rt) ==
    CASE rt = "CodeSystem" -> 0
      [] rt = "ValueSet" -> 1
      [] rt = "Questionnaire" -> 2
      [] OTHER -> 99

ALLOWED == {"CodeSystem", "ValueSet", "Questionnaire"}

\* What a *.json file of the input folder parses to: a resource, another JSON
\* value ("other": no resourceType), or nothing ("invalid": not JSON)
ResourceIds == {JAbsent, JStr("a"), JStr("B")}
FileObjects ==
    [json : {"resource"}, resourceType : ALLOWED \cup {"Patient"}, id : ResourceIds]
        \cup {[json |-> j, resourceType |-> "", id |-> JAbsent] : j \in {"other", "invalid"}}

RECURSIVE FileLists(_)
FileLists(n) ==
    IF n = 0 THEN {<< >>}
    ELSE FileLists(n - 1) \cup
         {Append(fs, f) : fs \in {x \in FileLists(n - 1) : Len(x) = n - 1}, f \in FileObjects}

\* load_json_files: the files that hold a single resource of an allowed type
LoadJsonFiles(files) ==
    SelectSeq(files, LAMBDA o : o.json = "resource" /\ o.resourceType \in ALLOWED)

\* sort_resources.key: (ORDER.get(resourceType, 99), r.get("id") or "")
SortKey(r) == <<ORDER(r.resourceType), IF Truthy(r.id) THEN r.id.s ELSE "">>

\* k1 < k2 on such tuples
KeyLess(k1, k2) == k1[1] < k2[1] \/ (k1[1] = k2[1] /\ StrLess(k1[2], k2[2]))

\* sorted(resources, key=key): stable, so r goes behind everything that is not
\* greater than it
InsertByKey(r, sorted) ==
    LET n == Cardinality({k \in 1..Len(sorted) : ~KeyLess(SortKey(r), SortKey(sorted[k]))}) IN
    SubSeq(sorted, 1, n) \o <<r>> \o SubSeq(sorted, n + 1, Len(sorted))

RECURSIVE SortResources(_)
SortResources(rs) ==
    IF rs = << >> THEN << >>
    ELSE InsertByKey(rs[Len(rs)], SortResources(SubSeq(rs, 1, Len(rs) - 1)))

\* request_method
RequestMethod(resource, mode) ==
    IF mode = "put" THEN "PUT"
    ELSE IF mode = "post" THEN "POST"
    ELSE IF Truthy(resource.id) THEN "PUT" ELSE "POST"

\* request_url: f"{rt}/{rid}" if rid else rt
RequestUrl(resource) ==
    IF Truthy(resource.id) THEN resource.resourceType \o "/" \o resource.id.s
    ELSE resource.resourceType

\* make_entry, with the n-th identifier of uuid4
TxMakeEntry(resource, mode, n) ==
    [fullUrl |-> "urn:uuid:" \o Uuid(n),
     resource |-> resource,
     request |-> [method |-> RequestMethod(resource, mode), url |-> RequestUrl(resource)]]

TxInit ==
    /\ tfiles \in FileLists(MaxFiles)
    /\ tmethod \in {"auto", "put", "post"}
    /\ tpc = "start"
    /\ tresources = << >>
    /\ tentries = << >>
    /\ tuuid = 0

TxIdle ==
    /\ tfiles = << >>
    /\ tmethod = "auto"
    /\ tpc = "idle"
    /\ tresources = << >>
    /\ tentries = << >>
    /\ tuuid = 0

\* main: resources = load_json_files(indir); `if not resources: ... return 2`
TxLoad ==
    /\ tpc = "start"
    /\ tresources' = LoadJsonFiles(tfiles)
    /\ tpc' = IF LoadJsonFiles(tfiles) = << >> THEN "exit2" ELSE "loaded"
    /\ UNCHANGED <<tfiles, tmethod, tentries, tuuid, notTx>>

\* main: resources = sort_resources(resources)
TxSort ==
    /\ tpc = "loaded"
    /\ tresources' = SortResources(tresources)
    /\ tpc' = "sorted"
    /\ UNCHANGED <<tfiles, tmethod, tentries, tuuid, notTx>>

\* build_bundle: one step of [make_entry(r, mode) for r in resources]
TxBuildEntry ==
    /\ tpc = "sorted"
    /\ Len(tentries) < Len(tresources)
    /\ tentries' = Append(tentries, TxMakeEntry(tresources[Len(tentries) + 1], tmethod, tuuid + 1))
    /\ tuuid' = tuuid + 1
    /\ UNCHANGED <<tfiles, tmethod, tpc, tresources, notTx>>

\* main: the bundle is written, `return 0`
TxWrite ==
    /\ tpc = "sorted"
    /\ Len(tentries) = Len(tresources)
    /\ tpc' = "done"
    /\ UNCHANGED <<tfiles, tmethod, tresources, tentries, tuuid, notTx>>

TxNext ==
    \/ TxLoad
    \/ TxSort
    \/ TxBuildEntry
    \/ TxWrite

-----------------------------------------------------------------------------
(* The transaction bundle's order and request methods                       *)

\* the types a resource of type rt may depend on
TypesBefore(rt) ==
    CASE rt = "CodeSystem" -> {}
      [] rt = "ValueSet" -> {"CodeSystem"}
      [] rt = "Questionnaire" -> {"CodeSystem", "ValueSet"}
      [] OTHER -> {}

HasId(resource) == resource.id.t = "str" /\ resource.id.s # ""
IdText(resource) == IF HasId(resource) THEN resource.id.s ELSE ""

\* CodeSystems, then ValueSets, then Questionnaires; within a type by id
InDependencyOrder ==
    \A i, j \in 1..Len(tentries) :
        i < j =>
            LET a == tentries[i].resource
                b == tentries[j].resource IN
            /\ b.resourceType \notin TypesBefore(a.resourceType)
            /\ a.resourceType = b.resourceType => ~StrLess(IdText(b), IdText(a))

\* a PUT entry is for a resource with an id, at the url Type/id
PutOnlyWithId ==
    \A k \in 1..Len(tentries) :
        LET e == tentries[k] IN
        e.request.method = "PUT" =>
            /\ HasId(e.resource)
            /\ e.request.url = e.resource.resourceType \o "/" \o e.resource.id.s

\* auto: PUT if the resource has an id, else POST; post: always POST
AutoAndPostMethods ==
    \A k \in 1..Len(tentries) :
        LET e == tentries[k] IN
        /\ tmethod = "auto" => e.request.method = (IF HasId(e.resource) THEN "PUT" ELSE "POST")
        /\ tmethod = "post" => e.request.method = "POST"

(* C20: the transaction bundle lists its entries in dependency order (every *)
(* CodeSystem before every ValueSet before every Questionnaire, ties by id),*)
(* and an entry's method is PUT only for a resource that has an id (auto:   *)
(* PUT if it has an id, else POST; post: always POST), so that a PUT        *)
(* entry's url always has the form Type/id.                                 *)
C20_DependencyOrderAndPutWithId ==
    tpc = "done" => (InDependencyOrder /\ AutoAndPostMethods /\ PutOnlyWithId)

\* What does hold: the order and the methods of auto and post in every run,
\* and PUT only with an id unless --method put was given
TxOrderAndAutoPost ==
    tpc = "done" => (InDependencyOrder /\ AutoAndPostMethods)
TxPutOnlyWithIdUnlessForced ==
    (tpc = "done" /\ tmethod # "put") => PutOnlyWithId
TxEntriesOfLoadedResources ==
    tpc = "done" =>
        /\ Len(tentries) = Len(LoadJsonFiles(tfiles))
        /\ \A f \in FileObjects :
              Cardinality({k \in 1..Len(tentries) : tentries[k].resource = f})
                = Cardinality({k \in 1..Len(tfiles) : tfiles[k] = f /\ f.json = "resource"
                                                       /\ f.resourceType \in ALLOWED})
ForcedPutWithoutId ==
    /\ tpc = "done" /\ tmethod = "put"
    /\ \E k \in 1..Len(tentries) :
          /\ tentries[k].request = [method |-> "PUT", url |-> "Questionnaire"]
          /\ ~HasId(tentries[k].resource)
ReorderedByTypeAndId ==
    /\ tpc = "done"
    /\ [k \in 1..Len(tentries) |-> tentries[k].request.url]
         = <<"CodeSystem/a", "ValueSet/B", "ValueSet/a">>
    /\ [k \in 1..Len(tfiles) |-> tfiles[k].resourceType] = <<"ValueSet", "ValueSet", "CodeSystem">>

-----------------------------------------------------------------------------
(* Specifications: each runs one part and leaves the others idle *)

InitBatch ==
    BatchInit /\ ValidateIdle /\ LlmIdle /\ GenIdle /\ NormalizeIdle /\ ResolveIdle /\ AssembleIdle /\ TxIdle
SpecBatch == InitBatch /\ [][BatchNext]_vars

InitValidate ==
    ValidateInit /\ BatchIdle /\ LlmIdle /\ GenIdle /\ NormalizeIdle /\ ResolveIdle /\ AssembleIdle /\ TxIdle
SpecValidate == InitValidate /\ [][ValidateNext]_vars

InitLlm ==
    LlmInit /\ BatchIdle /\ ValidateIdle /\ GenIdle /\ NormalizeIdle /\ ResolveIdle /\ AssembleIdle /\ TxIdle
SpecLlm == InitLlm /\ [][LlmNext]_vars

InitGen ==
    GenInit /\ BatchIdle /\ ValidateIdle /\ LlmIdle /\ NormalizeIdle /\ ResolveIdle /\ AssembleIdle /\ TxIdle
SpecGen == InitGen /\ [][GenNext]_vars

InitNormalize ==
    NormalizeInit /\ BatchIdle /\ ValidateIdle /\ LlmIdle /\ GenIdle /\ ResolveIdle /\ AssembleIdle /\ TxIdle
SpecNormalize == InitNormalize /\ [][NormalizeNext]_vars

InitResolve ==
    ResolveInit /\ BatchIdle /\ ValidateIdle /\ LlmIdle /\ GenIdle /\ NormalizeIdle /\ AssembleIdle /\ TxIdle
SpecResolve == InitResolve /\ [][ResolveNext]_vars

InitAssemble ==
    AssembleInit /\ BatchIdle /\ ValidateIdle /\ LlmIdle /\ GenIdle /\ NormalizeIdle /\ ResolveIdle /\ TxIdle
SpecAssemble == InitAssemble /\ [][AssembleNext]_vars

InitTx ==
    TxInit /\ BatchIdle /\ ValidateIdle /\ LlmIdle /\ GenIdle /\ NormalizeIdle /\ ResolveIdle /\ AssembleIdle
SpecTx == InitTx /\ [][TxNext]_vars

=============================================================================
